---- MODULE Spec2Model ----
(***************************************************************************)
(* State-machine model of the weather particle engine of snowfall.py.      *)
(*                                                                         *)
(* Units.  Time is counted in steps of 1/50 s (0.02 s), the largest step   *)
(* in which MAX_DT (0.2 s), LIGHTNING_LIFETIME (0.18 s),                   *)
(* LIGHTNING_APPEAR_DURATION (0.12 s), MICROBURST_DURATION (1.2 s),        *)
(* BALL_LIFE (1.6 s) and the vortex lives (18 s) are whole numbers.  The   *)
(* clock readings of one callback (every time.time() call of one animate   *)
(* or of one timer callback) coincide at this resolution, and the clock    *)
(* does not run backwards.                                                 *)
(* Vortex, lightning, particle and meteor lengths are in 1/1000 px, wind   *)
(* and particle speeds in px/s, hail heights in px, hail velocities in     *)
(* 1/8000 px/s (three bounces by 0.45 = 9/20 are exact), opacities in      *)
(* percent, angles in 1/1000 rad.  Floating point products are fixed-point *)
(* products rounded down; orb velocities are rounded to the nearest grid   *)
(* value; the sine is a rational approximation.  The field is W = 400 by   *)
(* H = 100 px.                                                             *)
(*                                                                         *)
(* Left out: the horizontal coordinate and the rotation angle of the own   *)
(* particles of a vortex, of hail and of orbs (none of them feeds back     *)
(* into a radius, an axial offset, a vertical velocity, an age or an       *)
(* expiry), the insects, the push of a tornado on hail, the rotation of   *)
(* falling particles, colours and sizes of the visual elements.            *)
(*                                                                         *)
(* The event loop is cooperative: animate and every timer callback run to  *)
(* completion, one at a time, so each is one atomic action.  Wall-clock    *)
(* time passes between callbacks (Advance).  History fields, which the     *)
(* code does not hold, are marked (history).                               *)
(***************************************************************************)
EXTENDS Integers, Sequences, FiniteSets, TLC

VARIABLES
    enable,             \* the ENABLE_* flags, read once at start-up
    clock,              \* time.time()
    last,               \* animate's nonlocal last
    dt,                 \* the effective dt of the latest animate
    event,              \* the callback that ran last (history)
    advances,           \* how many times the clock has moved (history)
    timers,             \* pending callLater spawn timers: their due times
    reveals,            \* pending callLater add_segment callbacks
    scene,              \* the sublayers of root (visual elements in the scene)
    tornadoes,          \* live Tornado objects, in list order
    dust_devils,        \* live dust devil records, in list order
    microburst_active,  \* the microburst_active dict
    microburst_visual,  \* opacity of the microburst ground visual
    hail_particles,     \* the HailParticle objects
    ball_lightnings,    \* live orbs, in list order
    strikes,            \* every lightning record a closure still refers to
    active_lightnings,  \* births of the records in active_lightnings
    generated,          \* the latest result of create_lightning_segments
    gust_state,         \* the gust_state dict
    current_wind,       \* get_current_wind(now) of the latest animate
    snow_particles,     \* the snow Particle objects
    rain_particles,     \* the rain Particle objects
    leaf_particles,     \* the leaf Particle objects
    ash_particles,      \* the ash dicts
    sand_particles,     \* the sand dicts
    meteors,            \* live meteor dicts, in list order
    meteor_accum,       \* animate's nonlocal meteor_accum
    meteor_tally,       \* summed effective dt, meteors created (history)
    animate_pending     \* whether a callAfter(animate) is outstanding

coreVars == <<enable, clock, last, dt, event, advances>>
timerVars == <<timers, reveals>>
vortexVars == <<tornadoes, dust_devils>>
burstVars == <<microburst_active, microburst_visual>>
lightningVars == <<strikes, active_lightnings, ball_lightnings>>
windVars == <<gust_state, current_wind>>
populationVars == <<snow_particles, rain_particles, leaf_particles,
                    ash_particles, sand_particles>>
meteorVars == <<meteors, meteor_accum, meteor_tally>>
loopVars == <<animate_pending>>
fieldVars == <<windVars, populationVars, meteorVars, loopVars>>

vars == <<coreVars, timerVars, scene, vortexVars, burstVars, hail_particles,
          lightningVars, generated, fieldVars>>

-----------------------------------------------------------------------------
(* Configuration values (time in 1/50 s, lengths and speeds in px, px/s).  *)

MAX_DT == 10
TORNADO_LIFE == 900
TORNADO_RADIUS == 160
DUST_DEVIL_LIFE == 900
DUST_DEVILS_MAX == 3
DUST_DEVIL_RADIUS == 80
MICROBURST_DURATION == 60
LIGHTNING_MIN_DELAY == 100
LIGHTNING_MAX_DELAY == 200
DUST_DEVIL_MIN_DELAY == 300
DUST_DEVIL_MAX_DELAY == 900
TORNADO_MIN_DELAY == 1500
TORNADO_MAX_DELAY == 4500
MICROBURST_VISUAL_SHOWN == 40
LAYER_DEFAULT_OPACITY == 100
HAIL_SPEED_MIN == 800
HAIL_SPEED_MAX == 1800
HAIL_BOUNCE_NUM == 9
HAIL_BOUNCE_DEN == 20
HAIL_MAX_BOUNCES == 5
HAIL_MIN_BOUNCE_V == 180
LIGHTNING_LIFETIME == 9
LIGHTNING_APPEAR_DURATION == 6
LIGHTNING_DEPTH_LIMIT == 3
AttemptCap == 1000
BALL_LIFE == 80

WIND_BASE == 600
WIND_WAVE_AMPLITUDE == 40
\* 1 / WIND_WAVE_FREQ
WIND_WAVE_PERIOD == 625
GUST_MIN_INTERVAL == 200
GUST_MAX_INTERVAL == 600
GUST_MIN_DURATION == 40
GUST_MAX_DURATION == 125
GUST_MIN_STRENGTH == 40
GUST_MAX_STRENGTH == 220

SNOW_SPEED_MIN == 30
SNOW_SPEED_MAX == 120
SNOW_SIZE_MIN == 2
SNOW_SIZE_MAX == 6
RAIN_SPEED_MIN == 500
RAIN_SPEED_MAX == 1300
LEAF_SPEED_MIN == 60
LEAF_SPEED_MAX == 220
LEAF_SWAY == 80
ASH_SPEED_MIN == 20
ASH_SPEED_MAX == 80
SAND_SPEED_MIN == 200
SAND_SPEED_MAX == 600
MICROBURST_STRENGTH == 900
METEOR_CHANCE_PER_SEC == 1
METEOR_SPEED_MIN == 1400
METEOR_SPEED_MAX == 3000
\* The literal 'life' of a meteor.
METEOR_LIFE == 125
\* The literal reach of a microburst in the snow and rain updates.
MICROBURST_REACH == 250
\* The literal margins of the horizontal wraps and of the leaf respawn.
WRAP_MARGIN == 120
LEAF_MARGIN == 400
SAND_MARGIN == 150

\* Height and width of the screen, read at start-up (px).
H == 100
W == 400

-----------------------------------------------------------------------------
(* Bounds of the model.                                                    *)

\* Particles a tornado owns (total_particles) and a dust devil owns
\* (DUST_DEVIL_PARTICLES), hail stones (HAIL_COUNT), scaled down.
NumTornadoParticles == 1
NumDustParticles == 1
NumHail == 1
\* Particles of each of snow, rain, leaves, ash and sand (SNOW_COUNT,
\* RAIN_COUNT, LEAF_COUNT, ASH_COUNT, SAND_PARTICLES), scaled down.
NumParticles == 1
\* How many times the wall clock moves in one run.
MaxAdvances == 3
\* The same in the runs that follow falling particles and meteors.
MaxFallAdvances == 6
\* The same in the runs that wait for the meteor accumulator to fill.
MaxMeteorAdvances == 7
\* The same in the runs of dust devils that follow each other closely.
MaxDevilAdvances == 4
\* The same in the runs of strikes that follow each other closely.
MaxBallAdvances == 2
\* How many times the wall clock moves in one run of sand under a tornado.
MaxSandAdvances == 32
\* How many frames before the end of such a run a sand grain is looked at.
SandGrace == 10
\* Representable orb velocities per px/s.
OrbGrid == 1000
\* How many ticks an orb's velocity is followed for.
MaxOrbLerps == 2
\* Orbs one strike spawns at most (BALL_COUNT_MAX), scaled down.
MaxOrbs == 1

Max(a, b) == IF a >= b THEN a ELSE b
Min(a, b) == IF a <= b THEN a ELSE b
Abs(a) == IF a >= 0 THEN a ELSE -a

RECURSIVE Pow(_, _)
Pow(b, n) == IF n = 0 THEN 1 ELSE b * Pow(b, n - 1)

Flags == {"TORNADO", "DUST_DEVIL", "MICROBURST", "HAIL", "LIGHTNING",
          "BALL_LIGHTNING", "GUSTS", "SNOW", "RAIN", "LEAVES", "ASH",
          "SANDSTORM", "METEORS"}

\* math.pi and 2 * math.pi, in 1/1000 rad.
HalfTurn == 3142
FullTurn == 2 * HalfTurn

\* 1000 * math.sin(a / 1000): Bhaskara's rational approximation
\* 16 x (pi - x) / (5 pi^2 - 4 x (pi - x)) on each half turn.
Sin(a) ==
    LET r == a % FullTurn
        x == IF r < HalfTurn THEN r ELSE r - HalfTurn
        q == x * (HalfTurn - x)
        v == (160 * q) \div ((5 * HalfTurn * HalfTurn - 4 * q) \div 100)
    IN  IF r < HalfTurn THEN v ELSE -v

\* The largest r in lo..hi with r * r <= n.
RECURSIVE SqrtIn(_, _, _)
SqrtIn(n, lo, hi) ==
    IF lo >= hi THEN lo
    ELSE LET mid == (lo + hi + 1) \div 2
         IN  IF mid * mid <= n THEN SqrtIn(n, mid, hi)
             ELSE SqrtIn(n, lo, mid - 1)

\* math.hypot(dx, dy) of lengths in 1/1000 px, to 1/10 px.
Hypot(dx, dy) ==
    LET a == Abs(dx) \div 100
        b == Abs(dy) \div 100
    IN  100 * SqrtIn(a * a + b * b, 0, a + b)

-----------------------------------------------------------------------------
(* Wall clock.                                                             *)

\* The clock moves by g, at most n times in one run.
AdvanceWithin(g, n) ==
    /\ advances < n
    /\ advances' = advances + 1
    /\ clock' = clock + g
    /\ event' = "advance"
    /\ UNCHANGED <<enable, last, dt, timerVars, scene, vortexVars, burstVars,
                   hail_particles, lightningVars, generated, fieldVars>>

Advance(g) == AdvanceWithin(g, MaxAdvances)

-----------------------------------------------------------------------------
(* Tornado                                                                 *)

\* Layer handle of element k of the entity of the given kind born at b.
Layer(kind, b, k) == <<kind, b, k>>

\* Random draws of Tornado.__init__ for one particle.
TornadoSpawnDraws ==
    {[r |-> 13000, fall_offset |-> 300 * H, speed |-> 15,
      vertical_speed |-> 180],
     [r |-> 240000, fall_offset |-> 0, speed |-> 40, vertical_speed |-> 60]}

\* Random draws of the respawn branch of Tornado.apply_forces.
TornadoRespawnDraws ==
    {[r |-> 900 * TORNADO_RADIUS, fall_offset |-> 50 * H,
      vertical_speed |-> 160],
     [r |-> 1300 * TORNADO_RADIUS, fall_offset |-> -100 * H,
      vertical_speed |-> 60]}

\* Random draws of spawn_tornado and Tornado.__init__ for the centre.
TornadoCentreDraws ==
    {[x |-> -1000 * TORNADO_RADIUS, drift_direction |-> -1],
     [x |-> 1000 * (W + TORNADO_RADIUS), drift_direction |-> 1]}

\* Tornado.__init__; age is the age last compared against life (history),
\* respawned tells whether the latest tick respawned the particle (history).
NewTornado(now, c, radius, life, d) ==
    [born |-> now, life |-> life, radius |-> radius, x |-> c.x,
     y |-> -1000 * radius, drift_direction |-> c.drift_direction,
     age |-> 0,
     particles |-> [k \in 1..NumTornadoParticles |->
                      [r |-> d[k].r, fall_offset |-> d[k].fall_offset,
                       speed |-> d[k].speed,
                       vertical_speed |-> d[k].vertical_speed,
                       respawned |-> FALSE]]]

\* A scheduler that arms the callback twice.
callLaterTwice(now, delay) == {now + delay, now + delay + 1}

\* AppHelper.callLater(delay, f) at a callback's end: the due times of f
\* that are pending afterwards, the firing that runs being consumed.
callLater(now, delay) == {now + delay}

TornadoLayers(t) == {Layer("tornado", t.born, k) : k \in DOMAIN t.particles}

\* spawn_tornado, a timer callback; delays are the draws of its next delay.
SpawnTornado(centres, delays) ==
    /\ \E due \in timers.tornado : clock >= due
    /\ event' = "spawn_tornado"
    /\ IF ~enable.TORNADO
       THEN /\ timers' = [timers EXCEPT !.tornado = {}]
            /\ UNCHANGED <<tornadoes, scene>>
       ELSE \E d \in [1..NumTornadoParticles -> TornadoSpawnDraws],
               c \in centres, delay \in delays :
               LET t == NewTornado(clock, c, TORNADO_RADIUS, TORNADO_LIFE, d)
               IN
               /\ tornadoes' = Append(tornadoes, t)
               /\ scene' = scene \cup TornadoLayers(t)
               /\ timers' = [timers EXCEPT !.tornado = callLater(clock, delay)]
    /\ UNCHANGED <<enable, clock, last, dt, advances, reveals, dust_devils,
                   burstVars, hail_particles, lightningVars, generated,
                   fieldVars>>

\* The age compared against life: time.time() - t.born.
TornadoAgeFromDt(t, now, step) == t.age + step

TornadoAge(t, now, step) == now - t.born

\* if time.time() - t.born > t.life
TornadoExpiredNever(t, now, step) == FALSE

TornadoExpired(t, now, step) == TornadoAge(t, now, step) > t.life

\* spiral_in of a tornado particle, in 1/1000 px.
TornadoSpiralIn(p, step) == (step * (2400 + 96 * p.speed)) \div 10

TornadoRadiusStep(p, step) == Max(8000, p.r - TornadoSpiralIn(p, step))

\* vertical_speed * dt * (0.9 + fall_boost), in 1/1000 px, r in 1/1000 px.
TornadoFall(p, r, radius, step) ==
    (p.vertical_speed * step * (34000 - (16 * r) \div radius)) \div 1000

\* A tornado that never resets a particle.
TornadoMustRespawnNever(fall, r, y) == FALSE

TornadoMustRespawn(fall, r, y) ==
    fall > 1200 * H \/ r < 12000 \/ y > 1000 * (H + 300)

\* The centre's y of Tornado.apply_forces.
TornadoCentreY(t, now) ==
    Min((1000 * H * (now - t.born)) \div t.life, 1000 * (H + t.radius))

\* Whether the tick respawns particle p of tornado t.
TornadoRespawns(t, p, now, step) ==
    LET r1 == TornadoRadiusStep(p, step)
        fall1 == p.fall_offset + TornadoFall(p, r1, t.radius, step)
    IN  TornadoMustRespawn(fall1, r1, TornadoCentreY(t, now) + fall1)

\* One particle of Tornado.apply_forces; d[k] is its respawn draw.
TornadoParticleStep(t, k, now, step, d) ==
    LET p == t.particles[k]
        r1 == TornadoRadiusStep(p, step)
        fall1 == p.fall_offset + TornadoFall(p, r1, t.radius, step)
    IN  IF TornadoRespawns(t, p, now, step)
        THEN [p EXCEPT !.r = d[k].r, !.fall_offset = d[k].fall_offset,
                       !.vertical_speed = d[k].vertical_speed,
                       !.respawned = TRUE]
        ELSE [p EXCEPT !.r = r1, !.fall_offset = fall1, !.respawned = FALSE]

\* A tornado whose centre drifts on past the edges.
TornadoCentreXUnwrapped(t, now, step) ==
    LET sway == 500 + Sin((2000 * (now - t.born)) \div t.life) \div 2
    IN  t.x + (8 * t.drift_direction * sway * step) \div 5

\* The centre's x of Tornado.apply_forces: the drift of
\* 80 * drift_direction * (0.5 + 0.5 * sin(2 t)) px/s, then the wrap.
TornadoCentreX(t, now, step) ==
    LET sway == 500 + Sin((2000 * (now - t.born)) \div t.life) \div 2
        x1 == t.x + (8 * t.drift_direction * sway * step) \div 5
    IN  IF x1 > 1000 * (W + t.radius) THEN -1000 * t.radius
        ELSE IF x1 < -1000 * t.radius THEN 1000 * (W + t.radius)
        ELSE x1

\* A tornado update that drops the particles it should respawn.
TornadoApplyForcesDropping(t, now, step, d) ==
    [t EXCEPT !.particles =
        [k \in {j \in DOMAIN t.particles :
                   ~TornadoRespawns(t, t.particles[j], now, step)} |->
            t.particles[k]]]

\* Tornado.apply_forces on the tornado's own state.
TornadoApplyForces(t, now, step, d) ==
    [t EXCEPT !.x = TornadoCentreX(t, now, step),
              !.y = TornadoCentreY(t, now),
              !.age = TornadoAge(t, now, step),
              !.particles = [k \in DOMAIN t.particles |->
                                TornadoParticleStep(t, k, now, step, d)]]

\* Reach of a tornado over the other populations: radius * 1.8.
TornadoReach(t) == 1800 * t.radius

\* A tornado whose reach has no outer limit.
TornadoInRangeUnbounded(t, p) == Hypot(p.x - t.x, p.y - t.y) > 5000

\* if dist < self.radius * 1.8 and dist > 5.0
TornadoInRange(t, p) ==
    LET dist == Hypot(p.x - t.x, p.y - t.y)
    IN  dist < TornadoReach(t) /\ dist > 5000

\* A tornado whose push has no lift.
TornadoPushWithoutLift(t, p, intensity, lift, step) ==
    LET dx == p.x - t.x
        dy == p.y - t.y
        dist == Hypot(dx, dy)
        force == (intensity * 25 * (TornadoReach(t) - dist))
                     \div (TornadoReach(t) \div 1000)
        along == (force \div 100) * 2 * step
    IN  IF TornadoInRange(t, p)
        THEN [p EXCEPT
                 !.x = @ + ((-(dy \div 100)) * along) \div (dist \div 100),
                 !.y = @ + ((dx \div 100) * along * 4)
                               \div ((dist \div 100) * 10)]
        ELSE p

\* Tornado.apply_forces on one particle p of another population, t being
\* the tornado after its centre has moved; intensity is in tenths, lift in
\* px/s.  force is intensity * 250 * (1 - dist / reach), in 1/1000 px/s.
TornadoPush(t, p, intensity, lift, step) ==
    LET dx == p.x - t.x
        dy == p.y - t.y
        dist == Hypot(dx, dy)
        force == (intensity * 25 * (TornadoReach(t) - dist))
                     \div (TornadoReach(t) \div 1000)
        along == (force \div 100) * 2 * step
    IN  IF TornadoInRange(t, p)
        THEN [p EXCEPT
                 !.x = @ + ((-(dy \div 100)) * along) \div (dist \div 100),
                 !.y = @ + ((dx \div 100) * along * 4)
                               \div ((dist \div 100) * 10)
                         - lift * intensity * 2 * step]
        ELSE p

\* The pushes of the live tornadoes ts[i..], in list order.
RECURSIVE TornadoesPush(_, _, _, _, _, _)
TornadoesPush(ts, i, p, intensity, lift, step) ==
    IF i > Len(ts) THEN p
    ELSE TornadoesPush(ts, i + 1, TornadoPush(ts[i], p, intensity, lift, step),
                       intensity, lift, step)

-----------------------------------------------------------------------------
(* Dust devil                                                              *)

DustSpawnDraws ==
    {[r |-> 8000, height_offset |-> -400 * DUST_DEVIL_RADIUS, speed |-> 35,
      vertical_speed |-> 20],
     [r |-> 1200 * DUST_DEVIL_RADIUS, height_offset |-> 100 * H,
      speed |-> 35, vertical_speed |-> 60]}

DustRespawnDraws ==
    {[r |-> 900 * DUST_DEVIL_RADIUS, height_offset |-> 50 * H,
      vertical_speed |-> 100],
     [r |-> 1200 * DUST_DEVIL_RADIUS,
      height_offset |-> -300 * DUST_DEVIL_RADIUS, vertical_speed |-> 35]}

\* The record spawn_dust_devil appends; age and respawned are history.
NewDustDevil(now, cx, cy, d) ==
    [born |-> now, life |-> DUST_DEVIL_LIFE, cx |-> cx, cy |-> cy, age |-> 0,
     particles |-> [k \in 1..NumDustParticles |->
                      [r |-> d[k].r, height_offset |-> d[k].height_offset,
                       speed |-> d[k].speed,
                       vertical_speed |-> d[k].vertical_speed,
                       respawned |-> FALSE]]]

DustLayers(dd) == {Layer("dust", dd.born, k) : k \in DOMAIN dd.particles}

\* spawn_dust_devil, a timer callback.
SpawnDustDevil(delays) ==
    /\ \E due \in timers.dust : clock >= due
    /\ event' = "spawn_dust_devil"
    /\ IF ~enable.DUST_DEVIL
       THEN /\ timers' = [timers EXCEPT !.dust = {}]
            /\ UNCHANGED <<dust_devils, scene>>
       ELSE \E d \in [1..NumDustParticles -> DustSpawnDraws],
               cx \in {1000 * W}, cy \in {750 * H},
               delay \in delays :
               LET dd == NewDustDevil(clock, cx, cy, d) IN
               /\ dust_devils' = Append(dust_devils, dd)
               /\ scene' = scene \cup DustLayers(dd)
               /\ timers' = [timers EXCEPT !.dust = callLater(clock, delay)]
    /\ UNCHANGED <<enable, clock, last, dt, advances, reveals, tornadoes,
                   burstVars, hail_particles, lightningVars, generated,
                   fieldVars>>

\* age = time.time() - dd['born'].
DustAge(dd, now, step) == now - dd.born

DustExpired(dd, now, step) == DustAge(dd, now, step) > dd.life

DustSpiralInOutward(p, step) == -step * (200 + 6 * p.speed)

DustSpiralIn(p, step) == step * (200 + 6 * p.speed)

DustRadiusStep(p, step) == Max(5000, p.r - DustSpiralIn(p, step))

\* vertical_speed * dt * (0.9 + height_boost), in 1/1000 px.
DustRise(p, r, step) ==
    (p.vertical_speed * step * (42000 - (24 * r) \div DUST_DEVIL_RADIUS))
        \div 1000

DustMustRespawn(height, r, y) ==
    height > 1100 * H \/ r < 8000 \/ y < -200000

DustRespawns(dd, p, step) ==
    LET r1 == DustRadiusStep(p, step)
        h1 == p.height_offset + DustRise(p, r1, step)
    IN  DustMustRespawn(h1, r1, dd.cy - h1 - (4 * r1) \div 10)

\* One particle of animate's dust devil update; d[k] is its respawn draw.
DustParticleStep(dd, k, step, d) ==
    LET p == dd.particles[k]
        r1 == DustRadiusStep(p, step)
        h1 == p.height_offset + DustRise(p, r1, step)
    IN  IF DustRespawns(dd, p, step)
        THEN [p EXCEPT !.r = d[k].r, !.height_offset = d[k].height_offset,
                       !.vertical_speed = d[k].vertical_speed,
                       !.respawned = TRUE]
        ELSE [p EXCEPT !.r = r1, !.height_offset = h1, !.respawned = FALSE]

DustDevilStep(dd, now, step, d) ==
    [dd EXCEPT !.age = DustAge(dd, now, step),
               !.particles = [k \in DOMAIN dd.particles |->
                                 DustParticleStep(dd, k, step, d)]]

-----------------------------------------------------------------------------
(* Microburst                                                              *)

MicroburstEndsNever(now) == FALSE

MicroburstEndsAtOnce(now) == TRUE

MicroburstEnds(now) == now >= microburst_active.end

\* Random draws of the centre of a microburst.
MicroburstCentreDraws ==
    {[x |-> 0, y |-> 500 * H], [x |-> 1000 * W, y |-> 950 * H]}

\* maybe_microburst(dt); trigger is the outcome of
\* random.random() < MICROBURST_CHANCE * dt, possible only when dt > 0.
MaybeMicroburst(now, step, trigger) ==
    IF ~enable.MICROBURST
    THEN UNCHANGED <<microburst_active, microburst_visual>>
    ELSE IF microburst_active.active
    THEN IF MicroburstEnds(now)
         THEN /\ microburst_active' =
                     [microburst_active EXCEPT !.active = FALSE]
              /\ microburst_visual' = 0
         ELSE UNCHANGED <<microburst_active, microburst_visual>>
    ELSE IF trigger /\ step > 0
         THEN /\ \E c \in MicroburstCentreDraws :
                    microburst_active' =
                       [active |-> TRUE, start |-> now,
                        end |-> now + MICROBURST_DURATION,
                        x |-> c.x, y |-> c.y]
              /\ microburst_visual' = MICROBURST_VISUAL_SHOWN
         ELSE UNCHANGED <<microburst_active, microburst_visual>>

-----------------------------------------------------------------------------
(* Hail                                                                    *)

\* Velocity units per px/s: v_y * 0.45 stays a whole number for 3 bounces.
HailUnits == HAIL_BOUNCE_DEN * HAIL_BOUNCE_DEN * HAIL_BOUNCE_DEN

\* Draws of the hail set-up in main(): sy in [0, H], uniform(*HAIL_SPEED).
HailInitDraws ==
    {[y |-> 0, v |-> HAIL_SPEED_MIN], [y |-> H, v |-> 1000],
     [y |-> H, v |-> HAIL_SPEED_MAX]}

\* Draws of HailParticle.respawn (dy, v) and of the bounce nudge.
HailTickDraws ==
    {[dy |-> 10, v |-> HAIL_SPEED_MIN, nudge |-> 0],
     [dy |-> 200, v |-> HAIL_SPEED_MAX, nudge |-> 8]}

\* HailParticle.__init__.  History: v0 is the velocity drawn at the latest
\* (re)spawn, bounces the ground crossings since, respawned whether the
\* latest tick respawned the stone, and past_v0 / past_crossings describe
\* the flight that the latest respawn ended.
NewHail(d) ==
    [y |-> d.y, v_y |-> d.v * HailUnits,
     v0 |-> d.v * HailUnits, bounces |-> 0, respawned |-> FALSE,
     past_v0 |-> 0, past_crossings |-> 0]

\* h.v_y * HAIL_BOUNCE_COEFF
HailBounceNoLoss(v) == v

HailBounce(v) == (v * HAIL_BOUNCE_NUM) \div HAIL_BOUNCE_DEN

\* A stone that is never too slow to bounce.
HailTooSlowNever(v) == FALSE

\* h.v_y < HAIL_MIN_BOUNCE_V
HailTooSlow(v) == v < HAIL_MIN_BOUNCE_V * HailUnits

\* HailParticle.respawn
HailRespawn(h, d) ==
    [y |-> H + d.dy, v_y |-> d.v * HailUnits,
     v0 |-> d.v * HailUnits, bounces |-> 0, respawned |-> TRUE,
     past_v0 |-> h.v0, past_crossings |-> h.bounces + 1]

\* Whether the tick takes stone h below the ground.
HailCrosses(h, step) == h.y - (h.v_y * step) \div (HailUnits * 50) < 0

\* One stone of animate's hail update; d[k] is its draw if it crosses.
HailStep(hail, k, step, d) ==
    LET h == hail[k]
        y1 == h.y - (h.v_y * step) \div (HailUnits * 50)
    IN  IF y1 < 0
        THEN LET v1 == HailBounce(h.v_y)
             IN  IF HailTooSlow(v1)
                 THEN HailRespawn(h, d[k])
                 ELSE [h EXCEPT !.y = 6 + d[k].nudge, !.v_y = v1,
                                !.bounces = @ + 1, !.respawned = FALSE]
        ELSE [h EXCEPT !.y = y1, !.respawned = FALSE]

-----------------------------------------------------------------------------
(* Ball lightning                                                          *)

\* Orb velocities are floating-point numbers: a sum is rounded to the
\* nearest representable value, ties to the even one.  The model keeps them
\* on a grid of OrbGrid values per px/s, which stands for the grid of the
\* doubles around them.
RoundedSum(a, num, den) ==
    LET q == num \div den
        r == num - q * den
    IN  IF 2 * r < den THEN a + q
        ELSE IF 2 * r > den THEN a + q + 1
        ELSE IF (a + q) % 2 = 0 THEN a + q ELSE a + q + 1

\* lerp(a, b, t) = a + (b - a) * t, t in fiftieths.
lerpAway(a, b, t) == RoundedSum(a, (a - b) * t, 50)

lerp(a, b, t) == RoundedSum(a, (b - a) * t, 50)

\* Draws of spawn_lightning for one orb (velocities in grid units).
OrbSpawnDraws ==
    {[vx |-> -40 * OrbGrid, vy |-> 30 * OrbGrid,
      target_vx |-> 100 * OrbGrid, target_vy |-> -60 * OrbGrid,
      smoothing |-> 1],
     [vx |-> 40 * OrbGrid, vy |-> -30 * OrbGrid,
      target_vx |-> 40 * OrbGrid + 5, target_vy |-> -30 * OrbGrid - 30,
      smoothing |-> 6]}

\* Draws of animate for one orb: whether random.random() < 0.02, and the
\* new target.
OrbTickDraws ==
    {[reroll |-> FALSE, target_vx |-> 0, target_vy |-> 0],
     [reroll |-> TRUE, target_vx |-> -120 * OrbGrid,
      target_vy |-> 80 * OrbGrid]}

\* The orb record of spawn_lightning.  History: id, lerps (ticks it has
\* lived through), rerolled (whether the latest tick re-rolled its target).
NewOrb(now, k, d) ==
    [id |-> <<now, k>>, born |-> now, life |-> BALL_LIFE,
     vx |-> d.vx, vy |-> d.vy,
     target_vx |-> d.target_vx, target_vy |-> d.target_vy,
     smoothing |-> d.smoothing, opacity |-> 100,
     lerps |-> 0, rerolled |-> FALSE]

OrbLayer(o) == Layer("orb", o.id[1], o.id[2])

\* An orb that never expires.
OrbExpiredNever(o, now) == FALSE

\* if age > bl['life']
OrbExpired(o, now) == now - o.born > o.life

\* One live orb of animate's ball lightning update.
OrbStep(o, now, step, d) ==
    LET age == now - o.born
        tx == IF d.reroll THEN d.target_vx ELSE o.target_vx
        ty == IF d.reroll THEN d.target_vy ELSE o.target_vy
    IN  [o EXCEPT !.target_vx = tx, !.target_vy = ty,
                  !.vx = lerp(o.vx, tx, o.smoothing),
                  !.vy = lerp(o.vy, ty, o.smoothing),
                  !.opacity = IF 10 * age > 6 * o.life
                              THEN Max(0, (1000 * (o.life - age))
                                              \div (4 * o.life))
                              ELSE @,
                  !.lerps = @ + 1, !.rerolled = d.reroll]

-----------------------------------------------------------------------------
(* create_lightning_segments                                               *)

(* The random draws of one call tree are fixed by a policy: for each       *)
(* nesting level, whether random.uniform(length_min, length_max) returns   *)
(* its minimum or its maximum and whether random.random() < branch_chance; *)
(* whether the flash layer is drawn; tpos and the branch height fraction   *)
(* in thousandths.  The arguments a are total_height, length_min,          *)
(* length_max, depth_limit and base_distance; thickness, colour, position  *)
(* and heading do not reach the segments' distances.  level is the nesting *)
(* depth of the call (history).                                            *)

Levels == 0..5

LevelOf(level) == Min(level, 5)

\* while remaining > 0 and attempts < 1000
GenLoopCondNoCap(st) == st.remaining > 0

GenLoopCond(st) == st.remaining > 0 /\ st.attempts < AttemptCap

\* if depth_limit > 0 and random.random() < branch_chance
GenBranches(a, level, pol) == a.depth_limit > 0 /\ pol.branch[LevelOf(level)]

\* depth_limit=depth_limit - 1
GenChildDepth(a) == a.depth_limit - 1

\* A draw that is not cut to the remaining height.
GenSegLenUnclamped(st, a, level, pol) ==
    IF pol.len[LevelOf(level)] = "min" THEN a.length_min ELSE a.length_max

\* seg_len = random.uniform(length_min, length_max), cut to remaining
GenSegLen(st, a, level, pol) ==
    LET drawn == IF pol.len[LevelOf(level)] = "min"
                 THEN a.length_min ELSE a.length_max
    IN  IF drawn > st.remaining THEN st.remaining ELSE drawn

\* A distance measured from the far end of the path.
GenDistanceFromEnd(st, a, seg_len) ==
    a.base_distance + st.remaining - seg_len \div 2

\* 'distance': base_distance + traveled + seg_len * 0.5
GenDistance(st, a, seg_len) ==
    a.base_distance + st.traveled + seg_len \div 2

RECURSIVE CreateLightningSegments(_, _, _)
RECURSIVE GenIterate(_, _, _, _, _)

\* One pass of the while loop.
GenBody(st, a, level, pol) ==
    LET seg_len == GenSegLen(st, a, level, pol)
        dist == GenDistance(st, a, seg_len)
        seg(kind) == [kind |-> kind, distance |-> dist, level |-> level,
                      base |-> a.base_distance, pass |-> st.attempts + 1]
        own == IF pol.flash
               THEN <<seg("glow"), seg("core"), seg("flash")>>
               ELSE <<seg("glow"), seg("core")>>
        branches == GenBranches(a, level, pol)
        branch_height == (st.remaining * pol.frac) \div 1000
        child == CreateLightningSegments(
                    [total_height |-> branch_height,
                     length_min |-> (a.length_min * 6) \div 10,
                     length_max |-> (a.length_max * 7) \div 10,
                     depth_limit |-> GenChildDepth(a),
                     base_distance |-> a.base_distance + st.traveled
                                        + (seg_len * pol.tpos) \div 1000],
                    level + 1, pol)
    IN  [remaining |-> st.remaining - seg_len,
         traveled |-> st.traveled + seg_len,
         attempts |-> st.attempts + 1,
         segments |-> IF branches THEN st.segments \o own \o child.segments
                      ELSE st.segments \o own,
         passes |-> Append(st.passes,
                       [len |-> seg_len, remaining |-> st.remaining,
                        distance |-> dist, layers |-> Len(own),
                        branch_height |-> IF branches THEN branch_height
                                          ELSE 0]),
         calls |-> IF branches THEN st.calls \cup child.calls
                   ELSE st.calls,
         maxAttempts |-> IF branches
                         THEN Max(st.maxAttempts, child.maxAttempts)
                         ELSE st.maxAttempts,
         maxLevel |-> IF branches THEN Max(st.maxLevel, child.maxLevel)
                      ELSE st.maxLevel,
         diverged |-> st.diverged \/ (branches /\ child.diverged)]

\* The while loop, run for at most n passes.
GenIterate(st, n, a, level, pol) ==
    IF ~GenLoopCond(st) \/ n = 0 THEN st
    ELSE IF n = 1 THEN GenBody(st, a, level, pol)
    ELSE LET half == GenIterate(st, n \div 2, a, level, pol)
         IN  GenIterate(half, n - n \div 2, a, level, pol)

\* create_lightning_segments: the segments, and as history the passes of
\* this call's loop, the most passes of any call of the tree, the deepest
\* nesting level, whether some loop was still running one pass after
\* the attempt cap, and the calls of the tree: for each its level, its
\* base_distance, its total_height (budget), the count of its passes, its
\* traveled when it returned and, pass by pass, seg_len, remaining before
\* the pass, the distance stored, the count of layers and the
\* branch_height if the pass branched.
CreateLightningSegments(a, level, pol) ==
    LET st0 == [remaining |-> a.total_height, traveled |-> 0, attempts |-> 0,
                segments |-> <<>>, maxAttempts |-> 0, maxLevel |-> level,
                diverged |-> FALSE, passes |-> <<>>, calls |-> {}]
        end == GenIterate(st0, AttemptCap + 1, a, level, pol)
    IN  [segments |-> end.segments,
         attempts |-> end.attempts,
         maxAttempts |-> Max(end.attempts, end.maxAttempts),
         maxLevel |-> end.maxLevel,
         traveled |-> end.traveled,
         diverged |-> end.diverged \/ GenLoopCond(end),
         calls |-> end.calls \cup
                      {[level |-> level, base |-> a.base_distance,
                        budget |-> a.total_height,
                        attempts |-> end.attempts,
                        traveled |-> end.traveled,
                        passes |-> end.passes]}]

\* The arguments spawn_lightning passes (the defaults but total_height).
DefaultGenArgs(total_height) ==
    [total_height |-> total_height, length_min |-> 10000,
     length_max |-> 60000, depth_limit |-> LIGHTNING_DEPTH_LIMIT,
     base_distance |-> 0]

LenPolicies ==
    {[l \in Levels |-> "min"], [l \in Levels |-> "max"],
     [l \in Levels |-> IF l = 0 THEN "min" ELSE "max"],
     [l \in Levels |-> IF l = 3 THEN "min" ELSE "max"]}

BranchPolicies ==
    {[l \in Levels |-> FALSE], [l \in Levels |-> TRUE],
     [l \in Levels |-> l = 0]}

ShapePolicies ==
    {[flash |-> FALSE, tpos |-> 250, frac |-> 250],
     [flash |-> TRUE, tpos |-> 850, frac |-> 600]}

GenPolicies ==
    {[len |-> l, branch |-> b, flash |-> s.flash, tpos |-> s.tpos,
      frac |-> s.frac] :
        l \in LenPolicies, b \in BranchPolicies, s \in ShapePolicies}

\* How many levels of a call tree draw zero-length segments for ever.
ZeroLevels(a, pol) ==
    IF a.length_min > 0 THEN 0
    ELSE Cardinality({l \in 0..a.depth_limit : pol.len[l] = "min"})

GenInputs ==
    [total_height : {0, 35000, 90000}, length_min : {0, 10000},
     length_max : {60000}, depth_limit : 0..LIGHTNING_DEPTH_LIMIT,
     base_distance : {0}]

NoResult ==
    [input |-> DefaultGenArgs(0),
     policy |-> CHOOSE pol \in GenPolicies : TRUE,
     result |-> [segments |-> <<>>, attempts |-> 0, maxAttempts |-> 0,
                 maxLevel |-> 0, traveled |-> 0, diverged |-> FALSE,
                 calls |-> {}],
     calls |-> 0]

\* A call of create_lightning_segments on drawn arguments and draws.
Generate ==
    /\ generated.calls = 0
    /\ \E a \in GenInputs, pol \in GenPolicies :
          /\ ZeroLevels(a, pol) <= 1
          /\ generated' = [input |-> a, policy |-> pol,
                           result |-> CreateLightningSegments(a, 0, pol),
                           calls |-> 1]
    /\ event' = "generate"
    /\ UNCHANGED <<enable, clock, last, dt, advances, timerVars, scene,
                   vortexVars, burstVars, hail_particles, lightningVars,
                   fieldVars>>

-----------------------------------------------------------------------------
(* spawn_lightning and its add_segment callbacks                           *)

\* appear_duration, in tenths of a time unit.
AppearTenths == Min(10 * LIGHTNING_APPEAR_DURATION, 9 * LIGHTNING_LIFETIME)

\* The two clamps of dist.
ClampDistanceLowerOnly(dist, total) == Max(dist, 0)

ClampDistance(dist, total) == Min(Max(dist, 0), total)

\* delay = (dist / total_height) * appear_duration, as the fraction
\* num / den of a time unit.
RevealDelay(dist, total) ==
    [num |-> ClampDistance(dist, total) * AppearTenths, den |-> total * 10]

\* Whether a callLater(delay) armed at time armed has come due.
RevealDue(rv, now) == (now - rv.birth) * rv.den >= rv.num

LightningLayer(born, i) == Layer("lightning", born, i)

\* spawn_lightning, a timer callback.  draws are the (total_height, policy)
\* pairs it may draw, counts the orb counts, delays its next delays.
SpawnLightning(draws, counts, delays) ==
    /\ \E due \in timers.lightning : clock >= due
    /\ event' = "spawn_lightning"
    /\ IF ~enable.LIGHTNING
       THEN /\ timers' = [timers EXCEPT !.lightning = {}]
            /\ UNCHANGED <<reveals, scene, lightningVars>>
       ELSE \E dr \in draws, delay \in delays :
               LET gen == CreateLightningSegments(
                              DefaultGenArgs(dr.total_height), 0, dr.policy)
                   total == Max(dr.total_height, 1000)
                   n == Len(gen.segments)
               IN
               /\ strikes' = strikes @@
                     (clock :> [born |-> clock, alive |-> TRUE,
                                total_height |-> total, segments |-> n,
                                added |-> 0, skipped |-> 0])
               /\ active_lightnings' = Append(active_lightnings, clock)
               /\ reveals' = reveals \cup
                     {[strike |-> clock, seg |-> i, birth |-> clock,
                       distance |-> gen.segments[i].distance,
                       num |-> RevealDelay(gen.segments[i].distance,
                                           total).num,
                       den |-> RevealDelay(gen.segments[i].distance,
                                           total).den] : i \in 1..n}
               /\ IF enable.BALL_LIGHTNING
                  THEN \E count \in counts :
                       \E d \in [1..count -> OrbSpawnDraws] :
                          LET orbs == [k \in 1..count |->
                                          NewOrb(clock, k, d[k])] IN
                          /\ ball_lightnings' = ball_lightnings \o orbs
                          /\ scene' = scene \cup
                                {OrbLayer(orbs[k]) : k \in 1..count}
                  ELSE UNCHANGED <<ball_lightnings, scene>>
               /\ timers' = [timers EXCEPT !.lightning = callLater(clock, delay)]
    /\ UNCHANGED <<enable, clock, last, dt, advances, vortexVars, burstVars,
                   hail_particles, generated, fieldVars>>

\* if now2 - birth_time > LIGHTNING_LIFETIME: return
SegmentTooLateNever(now2, birth_time) == FALSE

SegmentTooLate(now2, birth_time) == now2 - birth_time > LIGHTNING_LIFETIME

\* if not rec['alive']: return
SegmentOfDead(rec) == ~rec.alive

\* add_segment, the callback armed for one segment.
AddSegment ==
    \E rv \in reveals :
       /\ RevealDue(rv, clock)
       /\ event' = "add_segment"
       /\ reveals' = reveals \ {rv}
       /\ IF SegmentOfDead(strikes[rv.strike])
             \/ SegmentTooLate(clock, rv.birth)
          THEN /\ strikes' = [strikes EXCEPT ![rv.strike].skipped = @ + 1]
               /\ UNCHANGED scene
          ELSE /\ strikes' = [strikes EXCEPT ![rv.strike].added = @ + 1]
               /\ scene' = scene \cup {LightningLayer(rv.strike, rv.seg)}
       /\ UNCHANGED <<enable, clock, last, dt, advances, timers, vortexVars,
                      burstVars, hail_particles, active_lightnings,
                      ball_lightnings, generated, fieldVars>>

-----------------------------------------------------------------------------
(* Wind and gusts                                                          *)

\* WIND_WAVE_AMPLITUDE * math.sin(2 * math.pi * WIND_WAVE_FREQ * now)
Wave(now) ==
    (WIND_WAVE_AMPLITUDE
        * Sin(((now % WIND_WAVE_PERIOD) * FullTurn) \div WIND_WAVE_PERIOD))
    \div 1000

\* The draws of one gust: its duration and its signed strength.
GustStartDraws ==
    {[dur |-> GUST_MIN_DURATION, strength |-> GUST_MAX_STRENGTH],
     [dur |-> GUST_MAX_DURATION, strength |-> -GUST_MIN_STRENGTH]}

\* The draws of the pause before the next gust.
GustIntervalNone == {0}

GustIntervalDraws == {GUST_MIN_INTERVAL, GUST_MAX_INTERVAL}

GustEndsAtOnce(g, now) == TRUE

\* if now >= gust_state['end']
GustEnds(g, now) == now >= g.end

\* The values maybe_start_gust(now) can leave in gust_state.
MaybeStartGust(g, now) ==
    IF ~enable.GUSTS THEN {g}
    ELSE IF g.active
    THEN IF GustEnds(g, now)
         THEN {[g EXCEPT !.active = FALSE, !.strength = 0,
                         !.next_start = now + i] : i \in GustIntervalDraws}
         ELSE {g}
    ELSE IF now >= g.next_start
         THEN {[g EXCEPT !.active = TRUE, !.start = now,
                         !.end = now + d.dur, !.strength = d.strength] :
                  d \in GustStartDraws}
         ELSE {g}

GetCurrentWind(g, now) ==
    WIND_BASE + Wave(now) + (IF g.active THEN g.strength ELSE 0)

-----------------------------------------------------------------------------
(* Snow, rain, leaves, ash and sand                                        *)

\* Random draws of main() for one snow flake, rain drop and leaf: x, y and
\* the sizes in 1/1000 px, speed, jitter and rot_speed in px/s and deg/s.
SnowInitDraws ==
    {[x |-> 500 * W, y |-> 5000, speed |-> SNOW_SPEED_MAX, jitter |-> 20,
      radius |-> 8000, width |-> 0, length |-> 0, rot_speed |-> 60],
     [x |-> 1000 * W, y |-> 1000 * H, speed |-> SNOW_SPEED_MIN,
      jitter |-> -20, radius |-> 3000, width |-> 0, length |-> 0,
      rot_speed |-> -60]}

RainInitDraws ==
    {[x |-> 500 * W, y |-> 5000, speed |-> RAIN_SPEED_MAX, jitter |-> 40,
      radius |-> 0, width |-> 2500, length |-> 40000, rot_speed |-> 60],
     [x |-> 1000 * W, y |-> 1000 * H, speed |-> RAIN_SPEED_MIN,
      jitter |-> -40, radius |-> 0, width |-> 1000, length |-> 15000,
      rot_speed |-> -60]}

LeafInitDraws ==
    {[x |-> 1000 * W, y |-> 1000 * H, speed |-> LEAF_SPEED_MIN,
      jitter |-> LEAF_SWAY, radius |-> 0, width |-> 16000, length |-> 25600,
      rot_speed |-> 120],
     [x |-> 0, y |-> 5000, speed |-> LEAF_SPEED_MAX, jitter |-> -LEAF_SWAY,
      radius |-> 0, width |-> 6000, length |-> 4800, rot_speed |-> -120]}

AshInitDraws ==
    {[x |-> 1000 * W, y |-> 1000 * H, speed |-> ASH_SPEED_MIN],
     [x |-> 500 * W, y |-> 0, speed |-> ASH_SPEED_MAX]}

SandInitDraws ==
    {[x |-> 600 * W, y |-> 0, vx |-> -SAND_SPEED_MIN],
     [x |-> 0, y |-> 1000 * H, vx |-> SAND_SPEED_MAX]}

\* Particle.__init__; respawned and wrapped tell whether the latest tick
\* respawned the particle at the top and wrapped it sideways (history).
NewParticle(d) ==
    [x |-> d.x, y |-> d.y, speed |-> d.speed, jitter |-> d.jitter,
     radius |-> d.radius, width |-> d.width, length |-> d.length,
     rot_speed |-> d.rot_speed, respawned |-> FALSE, wrapped |-> FALSE]

\* The dict main() appends to ash_particles; respawned is history.
NewAsh(d) == [x |-> d.x, y |-> d.y, speed |-> d.speed, respawned |-> FALSE]

\* The dict main() appends to sand_particles; wrapped is history.
NewSand(d) == [x |-> d.x, y |-> d.y, vx |-> d.vx, wrapped |-> FALSE]

\* Random draws of Particle.respawn_top and of the ash reset: x, the
\* height above the top edge, rot_speed.
RespawnTopDraws ==
    {[x |-> 0, above |-> 20000, rot_speed |-> -60],
     [x |-> 1000 * W, above |-> 200000, rot_speed |-> 60]}

AshRespawnDraws ==
    {[x |-> 0, above |-> 10000], [x |-> 1000 * W, above |-> 200000]}

\* Particle.respawn_top as animate calls it: without overrides for snow
\* and leaves, with the drop's own width for rain.
RespawnTop(p, d) ==
    [p EXCEPT !.x = d.x, !.y = 1000 * H + d.above, !.rot_speed = d.rot_speed]

\* p.y -= p.speed * dt; p.x += (current_wind + p.jitter) * dt
Fall(p, wind, step) ==
    [p EXCEPT !.y = @ - 20 * p.speed * step,
              !.x = @ + 20 * (wind + p.jitter) * step]

\* if microburst_active['active']: ... if dist < 250.0
MicroburstInReach(mb, p) ==
    mb.active /\ Hypot(p.x - mb.x, p.y - mb.y) < 1000 * MICROBURST_REACH

\* The downward burst (MICROBURST_STRENGTH * dt) * (1.0 - dist / 250.0).
MicroburstDown(dist, step) ==
    (20 * MICROBURST_STRENGTH * step
        * ((1000 * MICROBURST_REACH - dist) \div 100))
    \div (10 * MICROBURST_REACH)

\* The radial push (dx / max(1.0, dist)) * (MICROBURST_STRENGTH * 0.03) * dt.
MicroburstAside(dx, dist, step) ==
    ((dx \div 100) * ((3 * MICROBURST_STRENGTH) \div 100) * 20 * step)
    \div (Max(1000, dist) \div 100)

\* The microburst block of the snow and of the rain update.
MicroburstPush(mb, p, step) ==
    LET dx == p.x - mb.x
        dist == Hypot(dx, p.y - mb.y)
    IN  IF MicroburstInReach(mb, p)
        THEN [p EXCEPT !.y = @ - MicroburstDown(dist, step),
                       !.x = @ + MicroburstAside(dx, dist, step)]
        ELSE p

\* No wrap at all.
WrapNever(p, half) == p

\* The horizontal wrap of snow and rain; half is the radius or half width.
Wrap(p, half) ==
    IF p.x + half < -1000 * WRAP_MARGIN THEN [p EXCEPT !.x = 1000 * W + half]
    ELSE IF p.x - half > 1000 * (W + WRAP_MARGIN) THEN [p EXCEPT !.x = -half]
    ELSE p

\* if p.y < 0, after the fall and the microburst
FallsOut(p, wind, mb, step) ==
    MicroburstPush(mb, Fall(p, wind, step), step).y < 0

\* One snow flake in animate; d[k] is its respawn draw.
SnowStep(p, wind, mb, step, d, k) ==
    LET a == MicroburstPush(mb, Fall(p, wind, step), step)
        b == IF a.y < 0 THEN RespawnTop(a, d[k]) ELSE a
        c == Wrap(b, b.radius)
    IN  [c EXCEPT !.respawned = a.y < 0, !.wrapped = c.x # b.x]

\* One rain drop in animate; d[k] is its respawn draw.
RainStep(p, wind, mb, step, d, k) ==
    LET a == MicroburstPush(mb, Fall(p, wind, step), step)
        b == IF a.y < 0 THEN RespawnTop(a, d[k]) ELSE a
        c == Wrap(b, b.width \div 2)
    IN  [c EXCEPT !.respawned = a.y < 0, !.wrapped = c.x # b.x]

\* The fall and the swaying drift of a leaf.
LeafMove(p, wind, step) ==
    LET y1 == p.y - 20 * p.speed * step
        sway == 500 + Sin((y1 + p.x) \div 50) \div 2
        horizontal == ((6 * wind + 10 * p.jitter) * 2 * step
                          * (600 + (800 * sway) \div 1000)) \div 1000
    IN  [p EXCEPT !.y = y1, !.x = @ + horizontal]

\* p.x < -400 or p.x > W + 400
LeafPastMargin(p) ==
    p.x < -1000 * LEAF_MARGIN \/ p.x > 1000 * (W + LEAF_MARGIN)

\* if p.y < -200 or p.x < -400 or p.x > W + 400
LeafOut(p) == p.y < -200000 \/ LeafPastMargin(p)

\* One leaf in animate; d[k] is its respawn draw.
LeafStep(p, wind, step, d, k) ==
    LET a == LeafMove(p, wind, step)
        b == IF LeafOut(a) THEN RespawnTop(a, d[k]) ELSE a
    IN  [b EXCEPT !.respawned = LeafOut(a), !.wrapped = FALSE]

\* a['y'] -= a['speed'] * dt; a['x'] += (current_wind * 0.2) * dt
AshMove(a, wind, step) ==
    [a EXCEPT !.y = @ - 20 * a.speed * step, !.x = @ + 4 * wind * step]

\* if a['y'] < -50
AshOut(a) == a.y < -50000

\* One ash flake in animate; d[k] is its respawn draw.
AshStep(a, wind, step, d, k) ==
    LET b == AshMove(a, wind, step)
    IN  IF AshOut(b)
        THEN [b EXCEPT !.y = 1000 * H + d[k].above, !.x = d[k].x,
                       !.respawned = TRUE]
        ELSE [b EXCEPT !.respawned = FALSE]

\* One sand grain in animate.
SandStep(sp, wind, now, step) ==
    LET x1 == sp.x + 20 * sp.vx * step + (8 * wind * step) \div 5
        x2 == IF x1 < -1000 * SAND_MARGIN THEN 1000 * (W + SAND_MARGIN)
              ELSE IF x1 > 1000 * (W + SAND_MARGIN) THEN -1000 * SAND_MARGIN
              ELSE x1
    IN  [sp EXCEPT !.x = x2,
                   !.y = @ + (Sin(60 * now + x2 \div 100) * step) \div 25,
                   !.wrapped = x2 # x1]

-----------------------------------------------------------------------------
(* Meteors                                                                 *)

\* The 1.0 of the accumulator, which gains METEOR_CHANCE_PER_SEC * dt a
\* tick, in its units of 1/50.
MeteorUnit == 50

\* Random draws of maybe_spawn_meteor: the side, the height in 1/1000 px,
\* the speed in px/s and the angle in degrees.
MeteorDraws ==
    {[from_left |-> TRUE, sy |-> 500 * H, speed |-> METEOR_SPEED_MAX,
      angle |-> 20],
     [from_left |-> FALSE, sy |-> 1000 * (H + 80), speed |-> METEOR_SPEED_MIN,
      angle |-> 50]}

\* math.radians, to 1/1000 rad.
Radians(deg) == (deg * HalfTurn) \div 180

\* 1000 * math.cos(a / 1000)
Cos(a) == Sin(a + HalfTurn \div 2)

\* The dict maybe_spawn_meteor appends in iteration i of its loop.
NewMeteor(now, d, i) ==
    LET angle == IF d.from_left THEN d.angle ELSE 180 - d.angle
    IN  [layer |-> Layer("meteor", now, i),
         x |-> IF d.from_left THEN -50000 ELSE 1000 * (W + 50),
         y |-> d.sy,
         vx |-> (Cos(Radians(angle)) * d.speed) \div 1000,
         vy |-> -((Sin(Radians(angle)) * d.speed) \div 1000),
         life |-> METEOR_LIFE, born |-> now]

\* m['x'] += m['vx'] * dt; m['y'] += m['vy'] * dt
MeteorMove(m, step) ==
    [m EXCEPT !.x = @ + 20 * m.vx * step, !.y = @ + 20 * m.vy * step]

\* if time.time() - m['born'] > m['life']
MeteorOver(m, now) == now - m.born > m.life

MeteorLoopsNone(a) == 0

\* How many times the loop while meteor_accum > 1.0 runs from a.
RECURSIVE MeteorLoops(_)
MeteorLoops(a) ==
    IF a > MeteorUnit THEN 1 + MeteorLoops(a - MeteorUnit) ELSE 0

-----------------------------------------------------------------------------
(* animate                                                                 *)

\* dt = now - last; if dt > MAX_DT: dt = MAX_DT
EffectiveDtUnclamped(now, prev) == now - prev

EffectiveDt(now, prev) ==
    IF now - prev > MAX_DT THEN MAX_DT ELSE now - prev

\* if time.time() - rec['born'] > LIGHTNING_LIFETIME
\* A traversal of the live list itself, which skips the record that
\* follows a removed one.
LightningOverSkipping(born, now) ==
    now - born > LIGHTNING_LIFETIME /\ born = active_lightnings[1]

LightningOver(born, now) == now - born > LIGHTNING_LIFETIME

\* One run of animate, from its first line to callAfter(animate).
Animate ==
    LET now == clock
        step == EffectiveDt(now, last)
        liveT == SelectSeq(tornadoes, LAMBDA t : ~TornadoExpired(t, now, step))
        deadT == {tornadoes[i] : i \in {j \in DOMAIN tornadoes :
                                    TornadoExpired(tornadoes[j], now, step)}}
        respT == {ik \in (DOMAIN liveT) \X (1..NumTornadoParticles) :
                     TornadoRespawns(liveT[ik[1]],
                                     liveT[ik[1]].particles[ik[2]], now, step)}
        liveD == SelectSeq(dust_devils, LAMBDA dd : ~DustExpired(dd, now, step))
        deadD == {dust_devils[i] : i \in {j \in DOMAIN dust_devils :
                                    DustExpired(dust_devils[j], now, step)}}
        respD == {ik \in (DOMAIN liveD) \X (1..NumDustParticles) :
                     DustRespawns(liveD[ik[1]],
                                  liveD[ik[1]].particles[ik[2]], step)}
        crossH == {k \in DOMAIN hail_particles :
                      HailCrosses(hail_particles[k], step)}
        liveO == SelectSeq(ball_lightnings, LAMBDA o : ~OrbExpired(o, now))
        deadO == {ball_lightnings[i] : i \in {j \in DOMAIN ball_lightnings :
                                    OrbExpired(ball_lightnings[j], now)}}
        movedM == [i \in DOMAIN meteors |-> MeteorMove(meteors[i], step)]
        liveM == SelectSeq(movedM, LAMBDA m : ~MeteorOver(m, now))
        deadM == {movedM[i] : i \in {j \in DOMAIN movedM :
                                    MeteorOver(movedM[j], now)}}
        filled == meteor_accum + METEOR_CHANCE_PER_SEC * step
        loops == MeteorLoops(filled)
        overL == {b \in DOMAIN strikes :
                     /\ \E i \in DOMAIN active_lightnings :
                           active_lightnings[i] = b
                     /\ LightningOver(b, now)}
    IN
    /\ animate_pending
    /\ \A i \in DOMAIN liveO : liveO[i].lerps < MaxOrbLerps
    /\ event' = "animate"
    /\ dt' = step
    /\ last' = now
    /\ gust_state' \in MaybeStartGust(gust_state, now)
    /\ \E trigger \in BOOLEAN : MaybeMicroburst(now, step, trigger)
    /\ current_wind' = GetCurrentWind(gust_state', now)
    /\ \E d \in [respT -> TornadoRespawnDraws] :
          tornadoes' = [i \in DOMAIN liveT |->
              TornadoApplyForces(liveT[i], now, step,
                  [k \in {kk \in 1..NumTornadoParticles : <<i, kk>> \in respT}
                      |-> d[<<i, k>>]])]
    /\ LET wind == current_wind'
           mb == microburst_active'
           snow == [k \in DOMAIN snow_particles |->
                       TornadoesPush(tornadoes', 1, snow_particles[k],
                                     8, 80, step)]
           rain == [k \in DOMAIN rain_particles |->
                       TornadoesPush(tornadoes', 1, rain_particles[k],
                                     6, 70, step)]
           leaf == [k \in DOMAIN leaf_particles |->
                       TornadoesPush(tornadoes', 1, leaf_particles[k],
                                     5, 65, step)]
           ash == [k \in DOMAIN ash_particles |->
                      TornadoesPush(tornadoes', 1, ash_particles[k],
                                    10, 50, step)]
           sand == [k \in DOMAIN sand_particles |->
                       TornadoesPush(tornadoes', 1, sand_particles[k],
                                     9, 60, step)]
       IN
       /\ \E d \in [{k \in DOMAIN snow : FallsOut(snow[k], wind, mb, step)}
                        -> RespawnTopDraws] :
             snow_particles' = [k \in DOMAIN snow |->
                                   SnowStep(snow[k], wind, mb, step, d, k)]
       /\ \E d \in [{k \in DOMAIN rain : FallsOut(rain[k], wind, mb, step)}
                        -> RespawnTopDraws] :
             rain_particles' = [k \in DOMAIN rain |->
                                   RainStep(rain[k], wind, mb, step, d, k)]
       /\ IF enable.LEAVES
          THEN \E d \in [{k \in DOMAIN leaf :
                              LeafOut(LeafMove(leaf[k], wind, step))}
                             -> RespawnTopDraws] :
                  leaf_particles' = [k \in DOMAIN leaf |->
                                        LeafStep(leaf[k], wind, step, d, k)]
          ELSE leaf_particles' = leaf
       /\ IF enable.ASH
          THEN \E d \in [{k \in DOMAIN ash :
                              AshOut(AshMove(ash[k], wind, step))}
                             -> AshRespawnDraws] :
                  ash_particles' = [k \in DOMAIN ash |->
                                       AshStep(ash[k], wind, step, d, k)]
          ELSE ash_particles' = ash
       /\ IF enable.SANDSTORM
          THEN sand_particles' = [k \in DOMAIN sand |->
                                     SandStep(sand[k], wind, now, step)]
          ELSE sand_particles' = sand
    /\ IF enable.HAIL
       THEN \E d \in [crossH -> HailTickDraws] :
               hail_particles' = [k \in DOMAIN hail_particles |->
                                     HailStep(hail_particles, k, step, d)]
       ELSE UNCHANGED hail_particles
    /\ \E d \in [respD -> DustRespawnDraws] :
          dust_devils' = [i \in DOMAIN liveD |->
              DustDevilStep(liveD[i], now, step,
                  [k \in {kk \in 1..NumDustParticles : <<i, kk>> \in respD}
                      |-> d[<<i, k>>]])]
    /\ meteor_accum' = filled - loops * MeteorUnit
    /\ IF enable.METEORS
       THEN \E d \in [1..loops -> MeteorDraws] :
               meteors' = liveM \o [i \in 1..loops |-> NewMeteor(now, d[i], i)]
       ELSE meteors' = liveM
    /\ meteor_tally' =
          [dt |-> meteor_tally.dt + step,
           spawned |-> meteor_tally.spawned + Len(meteors') - Len(liveM)]
    /\ \E d \in [DOMAIN liveO -> OrbTickDraws] :
          ball_lightnings' = [i \in DOMAIN liveO |->
                                 OrbStep(liveO[i], now, step, d[i])]
    /\ strikes' = [b \in DOMAIN strikes |->
                      IF b \in overL THEN [strikes[b] EXCEPT !.alive = FALSE]
                      ELSE strikes[b]]
    /\ active_lightnings' =
          SelectSeq(active_lightnings, LAMBDA b : ~LightningOver(b, now))
    /\ scene' = (((((scene \ UNION {TornadoLayers(t) : t \in deadT})
                     \ UNION {DustLayers(dd) : dd \in deadD})
                     \ {m.layer : m \in deadM})
                     \cup {meteors'[i].layer : i \in DOMAIN meteors'})
                     \ {OrbLayer(o) : o \in deadO})
                     \ UNION {{LightningLayer(b, i) :
                                  i \in 1..strikes[b].segments} : b \in overL}
    /\ UNCHANGED <<enable, clock, advances, timerVars, generated, loopVars>>

\* animate when the scene refuses the snow loop's first
\* p.layer.setPosition_: the exception leaves animate there, after the
\* wind, the microburst and the first flake have been updated and before
\* AppHelper.callAfter(animate).  Modelled where no tornado is live.
AnimateAborted ==
    LET now == clock
        step == EffectiveDt(now, last)
    IN
    /\ animate_pending
    /\ snow_particles # <<>> /\ tornadoes = <<>>
    /\ event' = "animate_aborted"
    /\ dt' = step
    /\ last' = now
    /\ gust_state' \in MaybeStartGust(gust_state, now)
    /\ \E trigger \in BOOLEAN : MaybeMicroburst(now, step, trigger)
    /\ current_wind' = GetCurrentWind(gust_state', now)
    /\ \E d \in [{k \in {1} : FallsOut(snow_particles[k], current_wind',
                                        microburst_active', step)}
                    -> RespawnTopDraws] :
          snow_particles' =
             [snow_particles EXCEPT
                 ![1] = SnowStep(@, current_wind', microburst_active',
                                 step, d, 1)]
    /\ animate_pending' = FALSE
    /\ UNCHANGED <<enable, clock, advances, timerVars, scene, vortexVars,
                   hail_particles, lightningVars, generated, rain_particles,
                   leaf_particles, ash_particles, sand_particles,
                   meteorVars>>

-----------------------------------------------------------------------------
(* Start-up and the configurations checked                                 *)

\* The state main() leaves before the first animate, with the ENABLE_*
\* flags of the set flags on and the others off.
Start(flags) ==
    /\ enable = [f \in Flags |-> f \in flags]
    /\ clock = 0 /\ last = 0 /\ dt = 0
    /\ event = "start" /\ advances = 0
    /\ timers \in [tornado : IF "TORNADO" \in flags THEN {{750}} ELSE {{}},
                   dust : IF "DUST_DEVIL" \in flags THEN {{400}} ELSE {{}},
                   lightning : IF "LIGHTNING" \in flags THEN {{100}}
                               ELSE {{}}]
    /\ reveals = {}
    /\ hail_particles \in
          IF "HAIL" \in flags
          THEN [1..NumHail -> {NewHail(d) : d \in HailInitDraws}]
          ELSE {<<>>}
    /\ scene = {Layer("hail", 0, k) : k \in DOMAIN hail_particles}
    /\ tornadoes = <<>> /\ dust_devils = <<>>
    /\ microburst_active =
          [active |-> FALSE, start |-> 0, end |-> 0, x |-> 0, y |-> 0]
    /\ microburst_visual = LAYER_DEFAULT_OPACITY
    /\ ball_lightnings = <<>>
    /\ strikes = <<>> /\ active_lightnings = <<>>
    /\ generated = NoResult
    /\ gust_state \in
          {[active |-> FALSE, start |-> 0, end |-> 0, strength |-> 0,
            next_start |-> i] :
              i \in IF "GUSTS" \in flags THEN GustIntervalDraws
                    ELSE {GUST_MIN_INTERVAL}}
    /\ current_wind = 0
    /\ snow_particles \in
          IF "SNOW" \in flags
          THEN [1..NumParticles -> {NewParticle(d) : d \in SnowInitDraws}]
          ELSE {<<>>}
    /\ rain_particles \in
          IF "RAIN" \in flags
          THEN [1..NumParticles -> {NewParticle(d) : d \in RainInitDraws}]
          ELSE {<<>>}
    /\ leaf_particles \in
          IF "LEAVES" \in flags
          THEN [1..NumParticles -> {NewParticle(d) : d \in LeafInitDraws}]
          ELSE {<<>>}
    /\ ash_particles \in
          IF "ASH" \in flags
          THEN [1..NumParticles -> {NewAsh(d) : d \in AshInitDraws}]
          ELSE {<<>>}
    /\ sand_particles \in
          IF "SANDSTORM" \in flags
          THEN [1..NumParticles -> {NewSand(d) : d \in SandInitDraws}]
          ELSE {<<>>}
    /\ meteors = <<>> /\ meteor_accum = 0
    /\ meteor_tally = [dt |-> 0, spawned |-> 0]
    /\ animate_pending = TRUE

\* Microburst only.
Init == Start({"MICROBURST"})

Next ==
    \/ \E g \in {0, 4, 10, 30, 70} : Advance(g)
    \/ Animate

Spec == Init /\ [][Next]_vars

\* A tornado only, or dust devils only.
InitVortex == Start({"TORNADO"}) \/ Start({"DUST_DEVIL"})

NextVortex ==
    \/ \E g \in {4, 900} : Advance(g)
    \/ SpawnTornado({[x |-> 1000 * W, drift_direction |-> -1]},
                    {1500})
    \/ SpawnDustDevil({900})
    \/ Animate

SpecVortex == InitVortex /\ [][NextVortex]_vars

\* Hail only.
InitHail == Start({"HAIL"})

NextHail ==
    \/ \E g \in {0, 4, 30} : Advance(g)
    \/ Animate

SpecHail == InitHail /\ [][NextHail]_vars

\* Lightning without orbs.
LightningDraws ==
    {[total_height |-> 35 * H * 10,
      policy |-> [len |-> [l \in Levels |-> "max"],
                  branch |-> [l \in Levels |-> l = 0],
                  flash |-> FALSE, tpos |-> 850, frac |-> 600]],
     [total_height |-> 60 * H * 10,
      policy |-> [len |-> [l \in Levels |-> "max"],
                  branch |-> [l \in Levels |-> FALSE],
                  flash |-> FALSE, tpos |-> 250, frac |-> 250]]}

InitLightning == Start({"LIGHTNING"})

NextLightning ==
    \/ \E g \in {3, 10, 100} : Advance(g)
    \/ SpawnLightning(LightningDraws, {1}, {200})
    \/ AddSegment
    \/ Animate

SpecLightning == InitLightning /\ [][NextLightning]_vars

\* Lightning with ball lightning.
OrbLightningDraws ==
    {[total_height |-> 35 * H * 10,
      policy |-> [len |-> [l \in Levels |-> "max"],
                  branch |-> [l \in Levels |-> FALSE],
                  flash |-> FALSE, tpos |-> 250, frac |-> 250]]}

InitOrb == Start({"LIGHTNING", "BALL_LIGHTNING"})

NextOrb ==
    \/ \E g \in {10, 100} : Advance(g)
    \/ SpawnLightning(OrbLightningDraws, 1..MaxOrbs, {200})
    \/ AddSegment
    \/ Animate

SpecOrb == InitOrb /\ [][NextOrb]_vars

\* Lightning with ball lightning, the strikes following each other at the
\* shortest delay; a frame is drawn between two moves of the clock, before
\* or after the strike that is due, which fires before the clock moves on.
InitBalls == Start({"LIGHTNING", "BALL_LIGHTNING"})

NextBalls ==
    \/ /\ clock = last
       /\ \A due \in timers.lightning : clock < due
       /\ AdvanceWithin(LIGHTNING_MIN_DELAY, MaxBallAdvances)
    \/ SpawnLightning(OrbLightningDraws, 1..MaxOrbs, {LIGHTNING_MIN_DELAY})
    \/ AddSegment
    \/ Animate

SpecBalls == InitBalls /\ [][NextBalls]_vars

\* Dust devils that follow each other at the shortest delay: the clock
\* jumps to the time the first is due, then moves by that delay after
\* each frame, and a due timer fires before the clock moves on.
InitDevils == Start({"DUST_DEVIL"})

NextDevils ==
    \/ clock = 0 /\ AdvanceWithin(400, MaxDevilAdvances)
    \/ /\ clock > 0 /\ clock = last
       /\ \A due \in timers.dust : clock < due
       /\ AdvanceWithin(DUST_DEVIL_MIN_DELAY, MaxDevilAdvances)
    \/ SpawnDustDevil({DUST_DEVIL_MIN_DELAY})
    \/ Animate

SpecDevils == InitDevils /\ [][NextDevils]_vars

\* Snow under a tornado, or rain with microbursts; a frame is drawn
\* between two moves of the clock, and a due timer fires before the clock
\* moves on.
InitDrift == Start({"SNOW", "TORNADO"}) \/ Start({"RAIN", "MICROBURST"})

NextDrift ==
    \/ /\ clock = last
       /\ \A due \in timers.tornado : clock < due
       /\ \E g \in {10, 900} : Advance(g)
    \/ SpawnTornado(TornadoCentreDraws, {TORNADO_MIN_DELAY})
    \/ Animate

SpecDrift == InitDrift /\ [][NextDrift]_vars

\* create_lightning_segments alone, on drawn arguments.
InitGen == Start({})

SpecGen == InitGen /\ [][Generate]_vars

\* Snow only, leaves only, or ash only.
InitFall == Start({"SNOW"}) \/ Start({"LEAVES"}) \/ Start({"ASH"})

NextFall ==
    \/ \E g \in {4, 10} : AdvanceWithin(g, MaxFallAdvances)
    \/ Animate

SpecFall == InitFall /\ [][NextFall]_vars

\* Snow only or ash only, under a wall clock that can be set back:
\* time.time() may return less than it did at the previous tick.
InitBack == Start({"SNOW"}) \/ Start({"ASH"})

NextBack ==
    \/ \E g \in {4, 25, -3} : clock + g >= 0 /\ Advance(g)
    \/ Animate

SpecBack == InitBack /\ [][NextBack]_vars

\* Meteors, or no effect at all.
InitMeteor == Start({"METEORS"}) \/ Start({})

NextMeteor ==
    \/ \E g \in {4, 10, 200} : AdvanceWithin(g, MaxMeteorAdvances)
    \/ Animate

SpecMeteor == InitMeteor /\ [][NextMeteor]_vars

\* Gusts only.
InitGust == Start({"GUSTS"}) \/ Start({})

NextGust ==
    \/ \E g \in {GUST_MIN_DURATION, GUST_MIN_INTERVAL} : Advance(g)
    \/ Animate

SpecGust == InitGust /\ [][NextGust]_vars

\* A microburst over snow, or over ash.
InitBurst == Start({"MICROBURST", "SNOW"}) \/ Start({"MICROBURST", "ASH"})

NextBurst ==
    \/ \E g \in {4, 10} : Advance(g)
    \/ Animate

SpecBurst == InitBurst /\ [][NextBurst]_vars

\* A tornado over ash, or a dust devil over ash; a frame is drawn between
\* two moves of the clock, and a due timer fires before the clock moves on.
InitSwirl == Start({"TORNADO", "ASH"}) \/ Start({"DUST_DEVIL", "ASH"})

NextSwirl ==
    \/ /\ clock = last
       /\ \A due \in timers.tornado \cup timers.dust : clock < due
       /\ \E g \in {4, 900} : Advance(g)
    \/ SpawnTornado(TornadoCentreDraws, {1500})
    \/ SpawnDustDevil({900})
    \/ Animate

SpecSwirl == InitSwirl /\ [][NextSwirl]_vars

\* A sandstorm under a tornado: the clock jumps to the time the first
\* tornado is due, then moves by 0.2 s after each tick that has seen its
\* previous move, and a due tornado timer fires before the clock moves on.
InitSand == Start({"SANDSTORM", "TORNADO"})

SandFrame ==
    \/ clock = 0 /\ AdvanceWithin(750, MaxSandAdvances)
    \/ /\ clock > 0 /\ clock = last
       /\ \A due \in timers.tornado : clock < due
       /\ AdvanceWithin(10, MaxSandAdvances)

SandTornado ==
    SpawnTornado({[x |-> 1000 * W, drift_direction |-> -1]}, {1500})

NextSand ==
    \/ SandFrame
    \/ SandTornado
    \/ Animate

SpecSand == InitSand /\ [][NextSand]_vars

\* The same with the run loop kept going: time passes, a due timer fires,
\* and callAfter reschedules animate after every tick, so that a tick sees
\* every move of the clock.
SpecSandFair ==
    /\ SpecSand
    /\ WF_vars(SandFrame) /\ WF_vars(SandTornado)
    /\ []<>(clock = last)

\* Each rare effect alone, with the extreme delays of its range.
InitTimers ==
    Start({"LIGHTNING"}) \/ Start({"DUST_DEVIL"}) \/ Start({"TORNADO"})

NextTimers ==
    \/ \E g \in {1500} : Advance(g)
    \/ SpawnLightning(OrbLightningDraws, {1},
                      {LIGHTNING_MIN_DELAY, LIGHTNING_MAX_DELAY})
    \/ SpawnDustDevil({DUST_DEVIL_MIN_DELAY, DUST_DEVIL_MAX_DELAY})
    \/ SpawnTornado({[x |-> 1000 * W, drift_direction |-> -1]},
                    {TORNADO_MIN_DELAY, TORNADO_MAX_DELAY})
    \/ AddSegment
    \/ Animate

SpecTimers == InitTimers /\ [][NextTimers]_vars

\* Snow over a scene that may refuse an update.
InitRefusal == Start({"SNOW"}) \/ Start({"SNOW", "MICROBURST"})

NextRefusal ==
    \/ \E g \in {4, 10} : Advance(g)
    \/ Animate
    \/ AnimateAborted

SpecRefusal == InitRefusal /\ [][NextRefusal]_vars

-----------------------------------------------------------------------------
(* Properties                                                              *)

\* C1: in every tick of animate, whatever the gap between the clock reading
\* and the previous tick's reading, the effective dt is at most MAX_DT.
C1_EffectiveDtAtMostMaxDt ==
    [][event' = "animate" => dt' <= MAX_DT /\ dt' <= clock - last]_vars

\* A first tick that ran after one gap of at least 7 * MAX_DT.
C1_Witness ==
    /\ event = "animate" /\ advances = 1
    /\ clock >= 7 * MAX_DT /\ dt = MAX_DT

\* The vortices of a list that a tick kept, by birth.
Kept(old, new, v) == {i \in DOMAIN new : new[i].born = v.born}

\* Every vortex of the list old either is kept with an age at most MAX_DT
\* higher, or is dropped within MAX_DT of its life.
AgeStepBounded(old, new) ==
    \A j \in DOMAIN old :
        /\ \A i \in Kept(old, new, old[j]) :
               new[i].age - old[j].age <= MAX_DT
        /\ Kept(old, new, old[j]) = {} => old[j].age + MAX_DT > old[j].life

\* C2 as stated: between two consecutive ticks the age of a live vortex
\* that is compared against its life grows by at most MAX_DT, so a vortex
\* whose age was more than MAX_DT short of its life is not expired by the
\* next tick.
C2_AgeGrowsByAtMostMaxDt ==
    [][event' = "animate" =>
          /\ AgeStepBounded(tornadoes, tornadoes')
          /\ AgeStepBounded(dust_devils, dust_devils')]_vars

\* Every vortex of the list old is dropped if the clock is more than life
\* past its birth, and is otherwise kept at the age clock - born.
AgeIsWallClock(old, new) ==
    \A j \in DOMAIN old :
        IF clock - old[j].born > old[j].life
        THEN Kept(old, new, old[j]) = {}
        ELSE /\ Kept(old, new, old[j]) # {}
             /\ \A i \in Kept(old, new, old[j]) :
                    new[i].age = clock - old[j].born

\* C2 amended: the age a tick compares against life is the full wall-clock
\* time since the vortex's birth, so between two ticks it grows by the
\* whole gap, clamped or not; only the dt that moves the particles is at
\* most MAX_DT.  A vortex is expired by the first tick whose clock reading
\* is more than life after its birth, however fresh it was a tick before.
C2_AgeGrowsByTheWallClockGap ==
    [][event' = "animate" =>
          /\ AgeIsWallClock(tornadoes, tornadoes')
          /\ AgeIsWallClock(dust_devils, dust_devils')
          /\ dt' <= MAX_DT]_vars

\* A tick with a clamped dt after which a tornado is alive at an age it
\* can only have reached over a gap longer than MAX_DT.
C2_Witness ==
    /\ event = "animate" /\ dt = MAX_DT
    /\ \E i \in DOMAIN tornadoes :
          tornadoes[i].age > MaxAdvances * MAX_DT

\* C3: once a tick has run more than life after the birth of a tornado or
\* of a dust devil, the vortex is no longer in its live list and none of
\* its particle elements is in the scene.
C3_ExpiredVortexIsGone ==
    /\ \A i \in DOMAIN tornadoes :
          last - tornadoes[i].born <= tornadoes[i].life
    /\ \A i \in DOMAIN dust_devils :
          last - dust_devils[i].born <= dust_devils[i].life
    /\ \A l \in scene :
          /\ l[1] = "tornado" => last - l[2] <= TORNADO_LIFE
          /\ l[1] = "dust" => last - l[2] <= DUST_DEVIL_LIFE

\* After a tick that ran more than TORNADO_LIFE after the spawn of a
\* tornado (whose timer was re-armed 1500 later), nothing of it is left.
C3_Witness ==
    /\ event = "animate" /\ enable.TORNADO
    /\ tornadoes = <<>> /\ scene = {}
    /\ \E due \in timers.tornado :
          due - 1500 > 0 /\ last - (due - 1500) > TORNADO_LIFE

\* C4: from the trigger of a microburst the ground visual has opacity 0.4
\* in every state until the first tick whose clock reading is at or past
\* start + MICROBURST_DURATION, and that tick sets it to 0.0.
C4_MicroburstVisual ==
    [][/\ ~microburst_active.active /\ microburst_active'.active =>
             /\ microburst_active'.start = clock
             /\ microburst_visual' = MICROBURST_VISUAL_SHOWN
       /\ microburst_active.active =>
             IF /\ event' = "animate"
                /\ clock >= microburst_active.start + MICROBURST_DURATION
             THEN ~microburst_active'.active /\ microburst_visual' = 0
             ELSE /\ microburst_active' = microburst_active
                  /\ microburst_visual' = MICROBURST_VISUAL_SHOWN]_vars

\* A microburst has been triggered and a later tick has ended it.
C4_Witness ==
    /\ event = "animate" /\ ~microburst_active.active
    /\ microburst_active.start > 0
    /\ clock >= microburst_active.start + MICROBURST_DURATION
    /\ microburst_visual = 0

\* The velocity (px/s) a stone drawn at v has after n ground crossings is
\* v * 9^n / 20^n; SmallestN(v) is the smallest n with v * c^n < v_min.
SlowAfter(v, n) == v * Pow(9, n) < HAIL_MIN_BOUNCE_V * Pow(20, n)

SmallestN(v) ==
    CHOOSE n \in 1..4 : SlowAfter(v, n) /\ \A m \in 1..(n - 1) : ~SlowAfter(v, m)

\* What one tick may do to a stone h, giving h2.
HailTick(h, h2) ==
    /\ h2.y >= 0
    /\ h2.bounces < SmallestN(h2.v0 \div HailUnits)
    /\ h2.v_y * Pow(20, h2.bounces) = h2.v0 * Pow(9, h2.bounces)
    /\ h2.v_y >= HAIL_MIN_BOUNCE_V * HailUnits
    /\ IF h2.respawned
       THEN /\ h2.past_v0 = h.v0
            /\ h2.past_crossings = h.bounces + 1
            /\ h2.past_crossings = SmallestN(h.v0 \div HailUnits)
       ELSE IF h2.bounces = h.bounces + 1
       THEN /\ 20 * h2.v_y = 9 * h.v_y
            /\ h2.v_y < h.v_y
       ELSE /\ h2.bounces = h.bounces /\ h2.v_y = h.v_y
            /\ dt' > 0 => h2.y < h.y

\* C5: every ground crossing of a hail stone multiplies v_y by
\* HAIL_BOUNCE_COEFF, so v_y strictly decreases between respawns; the stone
\* is respawned at the first crossing whose post-bounce velocity is below
\* HAIL_MIN_BOUNCE_V, which is crossing number SmallestN(v) for a stone
\* drawn at v; and every tick with dt > 0 brings a stone nearer to its
\* respawn: it respawns, or crosses the ground, or comes down by a pixel
\* or more from a height that is never negative.
C5_HailBouncesThenRespawns ==
    [][event' = "animate" =>
          \A k \in DOMAIN hail_particles :
              HailTick(hail_particles[k], hail_particles'[k])]_vars

\* A stone drawn at the top speed has just been respawned by its third
\* ground crossing.
C5_Witness ==
    /\ event = "animate"
    /\ \E k \in DOMAIN hail_particles :
          /\ hail_particles[k].respawned
          /\ hail_particles[k].past_v0 = HAIL_SPEED_MAX * HailUnits
          /\ hail_particles[k].past_crossings = 3

\* No particle a tick keeps without respawning moves outwards or below
\* the floor.
ParticleSpiralsIn(old, new, floor) ==
    \A j \in DOMAIN old : \A i \in Kept(old, new, old[j]) :
        \A k \in DOMAIN old[j].particles :
            LET p == old[j].particles[k]
                p2 == new[i].particles[k]
            IN  ~p2.respawned => p2.r <= p.r /\ p2.r >= floor

\* C6: in every tick with dt >= 0 that does not respawn it, the radius of
\* a particle of a live tornado or dust devil does not increase and is not
\* below its floor (8.0 px tornado, 5.0 px dust devil), and its axial
\* offset does not decrease.
C6_VortexParticlesSpiralIn ==
    [][event' = "animate" /\ dt' >= 0 =>
          /\ ParticleSpiralsIn(tornadoes, tornadoes', 8000)
          /\ ParticleSpiralsIn(dust_devils, dust_devils', 5000)
          /\ \A j \in DOMAIN tornadoes :
                \A i \in Kept(tornadoes, tornadoes', tornadoes[j]) :
                   \A k \in DOMAIN tornadoes[j].particles :
                      ~tornadoes'[i].particles[k].respawned =>
                         tornadoes'[i].particles[k].fall_offset
                            >= tornadoes[j].particles[k].fall_offset
          /\ \A j \in DOMAIN dust_devils :
                \A i \in Kept(dust_devils, dust_devils', dust_devils[j]) :
                   \A k \in DOMAIN dust_devils[j].particles :
                      ~dust_devils'[i].particles[k].respawned =>
                         dust_devils'[i].particles[k].height_offset
                            >= dust_devils[j].particles[k].height_offset]_vars

\* A dust devil particle that a tick with dt > 0 has moved inwards and
\* upwards from where spawn_dust_devil drew it, without respawning it.
C6_Witness ==
    /\ event = "animate" /\ dt > 0
    /\ \E i \in DOMAIN dust_devils : \E k \in DOMAIN dust_devils[i].particles :
          /\ ~dust_devils[i].particles[k].respawned
          /\ dust_devils[i].particles[k].r < 1200 * DUST_DEVIL_RADIUS
          /\ dust_devils[i].particles[k].r > 900 * DUST_DEVIL_RADIUS
          /\ dust_devils[i].particles[k].height_offset > 100 * H

\* D = min(LIGHTNING_APPEAR_DURATION, 0.9 * LIGHTNING_LIFETIME), in tenths
\* of a time unit.
D10 ==
    IF 10 * LIGHTNING_APPEAR_DURATION <= 9 * LIGHTNING_LIFETIME
    THEN 10 * LIGHTNING_APPEAR_DURATION ELSE 9 * LIGHTNING_LIFETIME

\* C7: every segment of a strike of total height Ht, at stored distance d,
\* is scheduled with delay (clamp(d, 0, Ht) / Ht) * D, which lies in [0, D],
\* also when d exceeds Ht as it can for a branch segment.
C7_RevealDelayClamped ==
    \A rv \in reveals :
        LET Ht == strikes[rv.strike].total_height
            c == IF rv.distance < 0 THEN 0
                 ELSE IF rv.distance > Ht THEN Ht ELSE rv.distance
        IN  /\ rv.den = 10 * Ht
            /\ rv.num = c * D10
            /\ 0 <= rv.num /\ rv.num <= D10 * Ht

\* A pending reveal of a branch segment whose distance exceeds the total
\* height, next to one of a main-bolt segment within it.
C7_Witness ==
    /\ \E rv \in reveals : rv.distance > strikes[rv.strike].total_height
    /\ \E rv \in reveals :
          rv.distance > 0 /\ rv.distance < strikes[rv.strike].total_height

\* C8: however a strike's reveal callbacks interleave with the ticks, no
\* segment is added to the scene once more than LIGHTNING_LIFETIME has
\* passed since the strike's birth or once a tick has cleaned the strike
\* up; from the cleanup on none of its segments is in the scene.
C8_NoLateSegment ==
    [][/\ \A l \in scene' \ scene :
             l[1] = "lightning" =>
                /\ strikes[l[2]].alive
                /\ clock - l[2] <= LIGHTNING_LIFETIME
       /\ \A l \in scene' :
             l[1] = "lightning" => strikes'[l[2]].alive]_vars

\* The only strike so far showed some segments, was cleaned up, and a
\* reveal callback that ran after the cleanup added nothing.
C8_Witness ==
    /\ event = "add_segment"
    /\ \E b \in DOMAIN strikes :
          /\ DOMAIN strikes = {b}
          /\ ~strikes[b].alive
          /\ strikes[b].added > 0 /\ strikes[b].skipped > 0
          /\ \A l \in scene : l[1] # "lightning"

\* C9: create_lightning_segments terminates whatever the draws (minimal or
\* zero segment lengths, a branch wherever one is allowed): no loop of the
\* call tree runs more than 1000 passes, and since a branch is spawned only
\* with depth_limit > 0 and gets depth_limit - 1, branches nest no deeper
\* than the initial depth limit, which is at most 3.
C9_GeneratorTerminates ==
    generated.calls > 0 =>
        /\ ~generated.result.diverged
        /\ generated.result.attempts <= AttemptCap
        /\ generated.result.maxAttempts <= AttemptCap
        /\ generated.result.maxLevel <= generated.input.depth_limit
        /\ \A i \in DOMAIN generated.result.segments :
              /\ generated.result.segments[i].level <= LIGHTNING_DEPTH_LIMIT
              /\ generated.result.segments[i].pass <= AttemptCap

\* A call at depth limit 3 that drew zero-length segments until the attempt
\* cap stopped it and branched down to the third level.
C9_Witness ==
    /\ generated.calls > 0
    /\ generated.input.length_min = 0
    /\ generated.result.attempts = AttemptCap
    /\ generated.result.traveled = 0
    /\ generated.result.maxLevel = LIGHTNING_DEPTH_LIMIT

\* The orb a tick kept, by id.
KeptOrbs(o) == {i \in DOMAIN ball_lightnings' : ball_lightnings'[i].id = o.id}

Gap(v, target) == Abs(v - target)

\* Orb o2 is strictly nearer its target than o on every axis where o was
\* off it, and no farther on the other.
OrbCloses(o, o2) ==
    /\ Gap(o2.vx, o2.target_vx) <= Gap(o.vx, o.target_vx)
    /\ Gap(o2.vy, o2.target_vy) <= Gap(o.vy, o.target_vy)
    /\ o.vx # o.target_vx =>
          Gap(o2.vx, o2.target_vx) < Gap(o.vx, o.target_vx)
    /\ o.vy # o.target_vy =>
          Gap(o2.vy, o2.target_vy) < Gap(o.vy, o.target_vy)

\* C10 as stated: in a tick that does not re-roll its target, an orb's
\* |vx - target_vx| and |vy - target_vy| do not increase and strictly
\* decrease while they are not zero, whatever dt is.
C10_OrbGapStrictlyDecreases ==
    [][event' = "animate" =>
          \A j \in DOMAIN ball_lightnings :
             \A i \in KeptOrbs(ball_lightnings[j]) :
                ~ball_lightnings'[i].rerolled =>
                   OrbCloses(ball_lightnings[j], ball_lightnings'[i])]_vars

\* Orb o2 is no farther from its target than o, nearer where the correction
\* exceeds half a grid step, and unmoved where it is below half a step.
OrbClosesUpToRounding(o, o2) ==
    /\ Gap(o2.vx, o2.target_vx) <= Gap(o.vx, o.target_vx)
    /\ Gap(o2.vy, o2.target_vy) <= Gap(o.vy, o.target_vy)
    /\ 2 * Gap(o.vx, o.target_vx) * o.smoothing > 50 =>
          Gap(o2.vx, o2.target_vx) < Gap(o.vx, o.target_vx)
    /\ 2 * Gap(o.vy, o.target_vy) * o.smoothing > 50 =>
          Gap(o2.vy, o2.target_vy) < Gap(o.vy, o.target_vy)
    /\ 2 * Gap(o.vx, o.target_vx) * o.smoothing < 50 => o2.vx = o.vx
    /\ 2 * Gap(o.vy, o.target_vy) * o.smoothing < 50 => o2.vy = o.vy

\* C10 amended: in a tick that does not re-roll its target, whatever dt
\* is, |v - target| does not increase on either axis, and it strictly
\* decreases when the correction (target - v) * smoothing is more than half
\* the spacing of the representable velocities at v; a correction smaller
\* than half that spacing is rounded away, and the velocity then stays
\* where it is, short of its target.
C10_OrbGapDecreasesUpToRounding ==
    [][event' = "animate" =>
          \A j \in DOMAIN ball_lightnings :
             \A i \in KeptOrbs(ball_lightnings[j]) :
                ~ball_lightnings'[i].rerolled =>
                   OrbClosesUpToRounding(ball_lightnings[j],
                                         ball_lightnings'[i])]_vars

\* After a tick with dt = 0 that did not re-roll its target, an orb has
\* come closer to its target on one axis and stands still short of it on
\* the other.
C10_Witness ==
    /\ event = "animate" /\ dt = 0
    /\ \E i \in DOMAIN ball_lightnings :
          LET o == ball_lightnings[i] IN
          /\ ~o.rerolled /\ o.lerps = MaxOrbLerps
          /\ o.vx # o.target_vx
          /\ 2 * Gap(o.vx, o.target_vx) * o.smoothing < 50
          /\ 2 * Gap(o.vy, o.target_vy) * o.smoothing > 50

\* Whether x and y lie in the region particles are respawned into: across
\* the width of the screen, between lo and hi px above its top edge.
InSpawnRegion(x, y, lo, hi) ==
    /\ 0 <= x /\ x <= 1000 * W
    /\ 1000 * (H + lo) <= y /\ y <= 1000 * (H + hi)

\* C11: a particle that the latest tick respawned lies in the spawn
\* region, across the screen and a bounded height above its top edge, and
\* the randomized attributes it carries lie in the configured ranges of
\* its population: for snow SNOW_SPEED and SNOW_SIZE, for ash ASH_SPEED.
C11_RespawnedWithinConfiguredRanges ==
    /\ \A k \in DOMAIN snow_particles :
          LET p == snow_particles[k] IN
          p.respawned =>
             /\ InSpawnRegion(p.x, p.y, 20, 200)
             /\ SNOW_SPEED_MIN <= p.speed /\ p.speed <= SNOW_SPEED_MAX
             /\ 1000 * SNOW_SIZE_MIN <= p.radius
             /\ p.radius <= 1000 * SNOW_SIZE_MAX
    /\ \A k \in DOMAIN ash_particles :
          LET a == ash_particles[k] IN
          a.respawned =>
             /\ InSpawnRegion(a.x, a.y, 10, 200)
             /\ ASH_SPEED_MIN <= a.speed /\ a.speed <= ASH_SPEED_MAX

\* C12: a tick that respawns a snow flake or an ash flake does not carry
\* its speed, jitter and size over unchanged.
C12_RespawnDrawsAttributesAfresh ==
    [][event' = "animate" =>
          /\ \A k \in DOMAIN snow_particles :
                LET p == snow_particles[k]
                    q == snow_particles'[k] IN
                q.respawned =>
                   ~(q.speed = p.speed /\ q.jitter = p.jitter
                        /\ q.radius = p.radius)
          /\ \A k \in DOMAIN ash_particles :
                ash_particles'[k].respawned =>
                   ash_particles'[k].speed # ash_particles[k].speed]_vars

\* Whether the two records agree on every field but x, y and history.
SameAttributes(p, q) ==
    /\ q.speed = p.speed /\ q.jitter = p.jitter /\ q.radius = p.radius
    /\ q.width = p.width /\ q.length = p.length
    /\ q.rot_speed = p.rot_speed

\* C13: a snow flake, leaf or ash flake that a tick moves past the
\* horizontal margin is put at the opposite edge by that tick, at the
\* height its fall has reached and with its attributes unchanged; it is
\* not respawned at the top and it is not left beyond the margin.  The
\* margin is 120 px for snow and, as the widest reading, for ash, which
\* has none of its own, and 400 px for leaves.
C13_DriftingParticleWraps ==
    [][event' = "animate" =>
          /\ \A k \in DOMAIN snow_particles :
                LET a == Fall(snow_particles[k], current_wind', dt')
                    q == snow_particles'[k] IN
                /\ a.y >= 0 /\ a.x - a.radius > 1000 * (W + WRAP_MARGIN)
                   => /\ q.x = -a.radius /\ q.y = a.y
                      /\ SameAttributes(a, q) /\ ~q.respawned
                /\ a.y >= 0 /\ a.x + a.radius < -1000 * WRAP_MARGIN
                   => /\ q.x = 1000 * W + a.radius /\ q.y = a.y
                      /\ SameAttributes(a, q) /\ ~q.respawned
          /\ \A k \in DOMAIN leaf_particles :
                LET a == LeafMove(leaf_particles[k], current_wind', dt')
                    q == leaf_particles'[k] IN
                a.y >= -200000 /\ LeafPastMargin(a)
                   => /\ ~q.respawned /\ q.y = a.y
                      /\ SameAttributes(a, q) /\ ~LeafPastMargin(q)
          /\ \A k \in DOMAIN ash_particles :
                LET q == ash_particles'[k] IN
                /\ -1000 * WRAP_MARGIN <= q.x
                /\ q.x <= 1000 * (W + WRAP_MARGIN)]_vars

\* Whether a meteor is outside the screen widened by the margins it is
\* spawned in: 50 px to the sides, 80 px above and below.
MeteorOffScreen(m) ==
    \/ m.x < -50000 \/ m.x > 1000 * (W + 50)
    \/ m.y < -80000 \/ m.y > 1000 * (H + 80)

\* C15: a tick that finds a meteor older than its life, or moves it
\* off-screen, removes it from the live list and releases its element.
C15_MeteorRemovedWhenOverOrOffScreen ==
    [][event' = "animate" =>
          \A i \in DOMAIN meteors :
             LET m == MeteorMove(meteors[i], dt') IN
             clock - m.born > m.life \/ MeteorOffScreen(m)
                => /\ m.layer \notin scene'
                   /\ \A j \in DOMAIN meteors' : meteors'[j].layer # m.layer]_vars

\* The meteors a tick has created: those whose element was not in the
\* scene before it.
MeteorsCreated ==
    Cardinality({i \in DOMAIN meteors' : meteors'[i].layer \notin scene})

\* C16: whatever ENABLE_METEORS is, a tick leaves in the accumulator its
\* old value plus METEOR_CHANCE_PER_SEC * dt, less 1 for each of the n
\* iterations that run while the value is > 1; the flag only decides
\* whether the n iterations create n meteors or none.  The value after
\* the tick is thus one function of the value before and of dt in both
\* configurations, and so agrees after every tick of equal dt sequences.
C16_AccumulatorIgnoresEnable ==
    [][event' = "animate" =>
          LET a == meteor_accum + METEOR_CHANCE_PER_SEC * dt' IN
          \E n \in 0..(a \div MeteorUnit) :
             /\ meteor_accum' = a - n * MeteorUnit
             /\ meteor_accum' <= MeteorUnit
             /\ n > 0 => meteor_accum' > 0
             /\ MeteorsCreated = IF enable.METEORS THEN n ELSE 0]_vars

\* With meteors disabled, a tick has just taken 1 off the accumulator: it
\* holds less than the dt it gained, and no meteor exists.
C16_Witness ==
    /\ ~enable.METEORS /\ event = "animate"
    /\ dt > 0 /\ meteor_accum < dt
    /\ meteors = <<>>

\* The transition inactive -> active of the gust state at the reading now.
GustStarts(g, h, now) ==
    /\ ~g.active /\ h.active
    /\ now >= g.next_start
    /\ h.start = now
    /\ GUST_MIN_DURATION <= h.end - now /\ h.end - now <= GUST_MAX_DURATION
    /\ GUST_MIN_STRENGTH <= Abs(h.strength)
    /\ Abs(h.strength) <= GUST_MAX_STRENGTH
    /\ h.next_start = g.next_start

\* The transition active -> inactive of the gust state at the reading now.
GustStops(g, h, now) ==
    /\ g.active /\ ~h.active
    /\ now >= g.end
    /\ h.strength = 0
    /\ GUST_MIN_INTERVAL <= h.next_start - now
    /\ h.next_start - now <= GUST_MAX_INTERVAL
    /\ h.start = g.start /\ h.end = g.end

\* C17: with gusts enabled, the gust state changes only in a tick, and
\* then by exactly one of two transitions: inactive -> active at
\* now >= next_start, with start = now, end - now a duration in
\* [GUST_MIN_DURATION, GUST_MAX_DURATION] and |strength| in
\* [GUST_MIN_STRENGTH, GUST_MAX_STRENGTH]; or active -> inactive at
\* now >= end, with strength = 0 and next_start - now an interval in
\* [GUST_MIN_INTERVAL, GUST_MAX_INTERVAL].  The wind a tick computes is the
\* base wind plus the wave, plus the gust strength exactly when the gust
\* is active after the transition.
C17_GustStateMachine ==
    [][/\ gust_state' # gust_state =>
             /\ event' = "animate"
             /\ \/ GustStarts(gust_state, gust_state', clock)
                \/ GustStops(gust_state, gust_state', clock)
       /\ event' = "animate" =>
             /\ gust_state'.active =>
                   current_wind' = WIND_BASE + Wave(clock)
                                       + gust_state'.strength
             /\ ~gust_state'.active =>
                   current_wind' = WIND_BASE + Wave(clock)]_vars

\* A gust has started, and a later tick, at or after its end, has stopped
\* it and drawn the next start; the wind of that tick carries no gust.
C17_Witness ==
    /\ enable.GUSTS /\ event = "animate"
    /\ ~gust_state.active /\ gust_state.strength = 0
    /\ gust_state.end > gust_state.start /\ gust_state.start > 0
    /\ clock >= gust_state.end
    /\ gust_state.next_start >= clock + GUST_MIN_INTERVAL
    /\ current_wind = WIND_BASE + Wave(clock)

\* C18: while a microburst is active no step changes its start, its end
\* = start + MICROBURST_DURATION or its centre, so no new microburst is
\* triggered; it stays active through every step but a tick whose clock
\* reading is >= end, and that tick leaves no microburst active.
C18_ActiveMicroburstIsFixed ==
    [][microburst_active.active =>
          /\ microburst_active.end
                = microburst_active.start + MICROBURST_DURATION
          /\ microburst_active'.start = microburst_active.start
          /\ microburst_active'.end = microburst_active.end
          /\ microburst_active'.x = microburst_active.x
          /\ microburst_active'.y = microburst_active.y
          /\ microburst_active'.active
                <=> ~(event' = "animate" /\ clock >= microburst_active.end)
       ]_vars

\* A microburst centred at the right edge has run its duration and the
\* tick that found the clock at or past its end has switched it off.
C18_Witness ==
    /\ event = "animate"
    /\ ~microburst_active.active
    /\ microburst_active.x = 1000 * W /\ microburst_active.y = 950 * H
    /\ microburst_active.end
          = microburst_active.start + MICROBURST_DURATION
    /\ clock >= microburst_active.end

\* Whether q is what the microburst mb makes, in a tick of the given dt,
\* of a particle that its own motion has brought to a: within the reach
\* of 250 px, a pushed down by MICROBURST_STRENGTH * dt * (1 - dist / 250)
\* and aside, away from the centre; beyond it, a itself.
MicroburstDisplaces(mb, a, q, step) ==
    LET dx == a.x - mb.x
        dist == Hypot(dx, a.y - mb.y)
    IN  IF dist < 1000 * MICROBURST_REACH
        THEN /\ q.y = a.y - MicroburstDown(dist, step)
             /\ q.x = a.x + MicroburstAside(dx, dist, step)
             /\ dx > 0 => q.x >= a.x
             /\ dx < 0 => q.x <= a.x
        ELSE q.x = a.x /\ q.y = a.y

\* C19: in a tick during which a microburst is active, every snow flake
\* and every ash flake that the tick neither respawns nor wraps ends where
\* the microburst displaces it to from where its own motion has brought
\* it.
C19_MicroburstDisplacesEveryPopulation ==
    [][event' = "animate" /\ microburst_active'.active =>
          /\ \A k \in DOMAIN snow_particles :
                LET q == snow_particles'[k] IN
                ~q.respawned /\ ~q.wrapped =>
                   MicroburstDisplaces(microburst_active',
                       Fall(snow_particles[k], current_wind', dt'), q, dt')
          /\ \A k \in DOMAIN ash_particles :
                LET q == ash_particles'[k] IN
                ~q.respawned =>
                   MicroburstDisplaces(microburst_active',
                       AshMove(ash_particles[k], current_wind', dt'), q, dt')
       ]_vars

\* Whether the centre of the dust devil dd is within DUST_DEVIL_RADIUS of
\* the particle p.
DustDevilInRange(dd, p) ==
    Hypot(p.x - dd.cx, p.y - dd.cy) < 1000 * DUST_DEVIL_RADIUS

\* Whether the ash flake q is elsewhere than where the fall and the wind
\* alone bring the flake a in a tick of the given dt.
AshDisplaced(a, q, wind, step) ==
    LET b == AshMove(a, wind, step) IN q.x # b.x \/ q.y # b.y

\* Whether every vortex of ws that was already in vs has had its own
\* particles advanced.
OwnParticlesAdvanced(vs, ws) ==
    \A j \in DOMAIN vs : \A i \in Kept(vs, ws, vs[j]) :
       ws[i].particles # vs[j].particles

\* C20: a tick with dt > 0 advances the own particles of every tornado and
\* of every dust devil that stays live, and displaces every ash flake it
\* does not reset that lies in range of the centre of a live tornado
\* (1.8 radii) or of a live dust devil (one radius).
C20_EveryVortexDisplacesOthers ==
    [][event' = "animate" /\ dt' > 0 =>
          /\ OwnParticlesAdvanced(tornadoes, tornadoes')
          /\ OwnParticlesAdvanced(dust_devils, dust_devils')
          /\ \A k \in DOMAIN ash_particles :
                LET a == ash_particles[k]
                    q == ash_particles'[k]
                IN  ~q.respawned =>
                       /\ (\E i \in DOMAIN tornadoes' :
                              TornadoInRange(tornadoes'[i], a))
                            => AshDisplaced(a, q, current_wind', dt')
                       /\ (\E i \in DOMAIN dust_devils' :
                              DustDevilInRange(dust_devils'[i], a))
                            => AshDisplaced(a, q, current_wind', dt')
       ]_vars

\* Whether the sand grain sp is above or below the field by more than the
\* margin of 150 px that animate wraps sand at sideways.
SandOutside(sp) ==
    sp.y < -1000 * SAND_MARGIN \/ sp.y > 1000 * (H + SAND_MARGIN)

C21_LiveVortexKeepsItsParticles ==
    /\ \A i \in DOMAIN tornadoes :
          /\ DOMAIN tornadoes[i].particles = 1..NumTornadoParticles
          /\ TornadoLayers(tornadoes[i]) \subseteq scene
    /\ \A i \in DOMAIN dust_devils :
          /\ DOMAIN dust_devils[i].particles = 1..NumDustParticles
          /\ DustLayers(dust_devils[i]) \subseteq scene

\* A tick has just reset a particle of a live tornado in place.
C21_Witness ==
    /\ event = "animate"
    /\ \E i \in DOMAIN tornadoes :
          /\ tornadoes[i].age > 0
          /\ \E k \in DOMAIN tornadoes[i].particles :
                tornadoes[i].particles[k].respawned
          /\ Cardinality(TornadoLayers(tornadoes[i]) \cap scene)
                = NumTornadoParticles

\* Whether the timer chain whose pending firings are due at the times of
\* before has, at time now, one firing pending afterwards, due after a
\* delay of lo to hi.
OneFiringPending(before, after, now, lo, hi) ==
    /\ Cardinality(before) = 1
    /\ \E delay \in lo..hi : after = {now + delay}

\* C22: a firing of the timer of an enabled rare effect spawns one
\* strike, one dust devil or one tornado and leaves exactly one next
\* firing pending, due after a delay in the effect's range; at every
\* moment exactly one firing of each enabled effect is pending.
C22_TimerChainNeitherDiesNorMultiplies ==
    [][/\ enable.LIGHTNING => Cardinality(timers'.lightning) = 1
       /\ enable.DUST_DEVIL => Cardinality(timers'.dust) = 1
       /\ enable.TORNADO => Cardinality(timers'.tornado) = 1
       /\ event' = "spawn_lightning" /\ enable.LIGHTNING =>
             /\ Len(active_lightnings') = Len(active_lightnings) + 1
             /\ OneFiringPending(timers.lightning, timers'.lightning, clock,
                                 LIGHTNING_MIN_DELAY, LIGHTNING_MAX_DELAY)
       /\ event' = "spawn_dust_devil" /\ enable.DUST_DEVIL =>
             /\ Len(dust_devils') = Len(dust_devils) + 1
             /\ OneFiringPending(timers.dust, timers'.dust, clock,
                                 DUST_DEVIL_MIN_DELAY, DUST_DEVIL_MAX_DELAY)
       /\ event' = "spawn_tornado" /\ enable.TORNADO =>
             /\ Len(tornadoes') = Len(tornadoes) + 1
             /\ OneFiringPending(timers.tornado, timers'.tornado, clock,
                                 TORNADO_MIN_DELAY, TORNADO_MAX_DELAY)
      ]_vars

\* The second tornado of a run has been spawned: the first firing has
\* scheduled the one that spawned it, which has scheduled a third.
C22_Witness ==
    /\ event = "spawn_tornado"
    /\ \E due \in timers.tornado : due >= clock + TORNADO_MIN_DELAY
    /\ clock >= 750 + TORNADO_MIN_DELAY

\* C23: a tick in which the scene refuses an update of a visual element
\* still advances the snow flakes that follow and leaves animate
\* scheduled again.
C23_RefusedUpdateIsAbsorbed ==
    [][event' = "animate_aborted" =>
          /\ animate_pending'
          /\ \A k \in DOMAIN snow_particles :
                k > 1 /\ dt' > 0 => snow_particles'[k] # snow_particles[k]
      ]_vars

\* The births of the records of a list, in list order.
BornsOf(list) == [i \in DOMAIN list |-> list[i].born]

\* The births of the records of a list that are no older than their life
\* at the reading now, in list order.
BornsOfUnexpired(list, now) ==
    BornsOf(SelectSeq(list, LAMBDA v : now - v.born <= v.life))

\* C24: a tick keeps, of each live list, exactly the records whose age
\* does not exceed their life, each once and in order (the meteors
\* spawned by the tick follow them), however many expire together.
C24_TraversalToleratesRemoval ==
    [][event' = "animate" =>
          /\ BornsOf(tornadoes') = BornsOfUnexpired(tornadoes, clock)
          /\ BornsOf(dust_devils') = BornsOfUnexpired(dust_devils, clock)
          /\ BornsOf(ball_lightnings')
                = BornsOfUnexpired(ball_lightnings, clock)
          /\ LET kept == BornsOfUnexpired(meteors, clock) IN
             /\ Len(meteors') >= Len(kept)
             /\ SubSeq(BornsOf(meteors'), 1, Len(kept)) = kept
             /\ \A i \in (Len(kept) + 1)..Len(meteors') :
                   meteors'[i].born = clock
          /\ active_lightnings' =
                SelectSeq(active_lightnings,
                          LAMBDA b : clock - b <= LIGHTNING_LIFETIME)
      ]_vars

\* The only tick with dt > 0 so far has removed two strike records.
C24_Witness ==
    /\ event = "animate"
    /\ meteor_accum = METEOR_CHANCE_PER_SEC * MAX_DT
    /\ Cardinality(DOMAIN strikes) = 2
    /\ \A b \in DOMAIN strikes : ~strikes[b].alive
    /\ active_lightnings = <<>>

\* The displacement, in 1/1000 px, that the force step of a tick gives the
\* ash flake a, which ends the tick as q without being reset: what is
\* left of its move once its own fall and the wind are taken off.
AshForceX(a, q, wind, step) == q.x - a.x - 4 * wind * step

AshForceY(a, q, wind, step) == q.y - a.y + 20 * a.speed * step

\* The lift of a tornado on ash in a tick: 50.0 * dt * intensity, with
\* intensity 1.0, in 1/1000 px.
AshLift(step) == 50 * 20 * step

\* Whether the vectors (ex, ey) and (dx, dy), in 1/1000 px, are
\* perpendicular, up to the rounding of the fixed-point products.
Perpendicular(ex, ey, dx, dy) ==
    Abs((ex \div 10) * (dx \div 100) + (ey \div 10) * (dy \div 100))
        <= 30 * (Abs(dx \div 100) + Abs(dy \div 100)) + 1000

C26_VortexParticlesStayInBounds ==
    event = "animate" =>
       /\ \A i \in DOMAIN tornadoes :
             \A k \in DOMAIN tornadoes[i].particles :
                LET t == tornadoes[i]
                    p == t.particles[k]
                IN  /\ p.r >= 12000
                    /\ p.fall_offset <= 1200 * H
                    /\ t.y + p.fall_offset <= 1000 * (H + 300)
                    /\ p.respawned =>
                          /\ p.r >= 900 * t.radius /\ p.r <= 1300 * t.radius
                          /\ p.fall_offset >= -100 * H
                          /\ p.fall_offset <= 50 * H
       /\ \A i \in DOMAIN dust_devils :
             \A k \in DOMAIN dust_devils[i].particles :
                LET dd == dust_devils[i]
                    p == dd.particles[k]
                IN  /\ p.r >= 8000
                    /\ p.height_offset <= 1100 * H
                    /\ dd.cy - p.height_offset - (4 * p.r) \div 10 >= -200000
                    /\ p.respawned =>
                          /\ p.r >= 900 * DUST_DEVIL_RADIUS
                          /\ p.r <= 1200 * DUST_DEVIL_RADIUS
                          /\ p.height_offset >= -300 * DUST_DEVIL_RADIUS
                          /\ p.height_offset <= 50 * H

\* A tick has reset a particle of a live dust devil that an earlier tick
\* has already advanced.
C26_Witness ==
    /\ event = "animate"
    /\ \E i \in DOMAIN dust_devils :
          \E k \in DOMAIN dust_devils[i].particles :
             /\ dust_devils[i].particles[k].respawned
             /\ dust_devils[i].age > 0

\* C27: after each apply_forces the centre of a live tornado has
\* -radius <= x <= W + radius, having moved in its drift direction or
\* re-entered at the edge opposite to it, and y = min(H * age / life,
\* H + radius), which is no lower than before.
C27_TornadoCentreStaysOnItsTrack ==
    [][event' = "animate" =>
          \A j \in DOMAIN tornadoes :
             \A i \in Kept(tornadoes, tornadoes', tornadoes[j]) :
                LET t == tornadoes[j]
                    u == tornadoes'[i]
                IN  /\ u.x >= -1000 * u.radius
                    /\ u.x <= 1000 * (W + u.radius)
                    /\ IF u.drift_direction = 1
                       THEN u.x >= t.x \/ u.x = -1000 * u.radius
                       ELSE u.x <= t.x \/ u.x = 1000 * (W + u.radius)
                    /\ u.y = Min((1000 * H * (clock - u.born)) \div u.life,
                                 1000 * (H + u.radius))
                    /\ u.y >= t.y
      ]_vars

\* A tick has carried the centre of a tornado that drifts to the right
\* across the right edge and put it back at the left edge, and a later
\* tick has moved it on.
C27_Witness ==
    /\ event = "animate"
    /\ \E i \in DOMAIN tornadoes :
          /\ tornadoes[i].drift_direction = 1
          /\ tornadoes[i].x > -1000 * tornadoes[i].radius
          /\ tornadoes[i].x < 0
          /\ tornadoes[i].y > 0

\* Where the ash flake a ends a tick whose force step, of the tornado t
\* at full intensity, comes after the flake's own move.
AshForceAfterUpdate(a, t, wind, step) ==
    TornadoPush(t, AshMove(a, wind, step), 10, 50, step)

\* Whether the positions of p and q differ by more than the rounding of
\* the fixed-point products, 0.05 px.
Apart(p, q) == Abs(p.x - q.x) > 50 \/ Abs(p.y - q.y) > 50

RECURSIVE SumLen(_, _, _)
SumLen(passes, lo, hi) ==
    IF lo > hi THEN 0
    ELSE IF lo = hi THEN passes[lo].len
    ELSE SumLen(passes, lo, (lo + hi) \div 2)
            + SumLen(passes, (lo + hi) \div 2 + 1, hi)

\* C29: in every call of create_lightning_segments of a call tree, each
\* pass draws a segment no longer than the height remaining, which starts
\* as the budget and falls by each segment's length, so the lengths never
\* sum to more than the budget; they sum to it exactly when the loop has
\* ended before the attempt cap; and a pass that branches gives the branch
\* at most 0.6 of the height remaining before that pass.
C29_SegmentsStayWithinBudget ==
    generated.calls > 0 =>
       \A c \in generated.result.calls :
          LET n == Len(c.passes) IN
          /\ n = c.attempts
          /\ \A i \in 1..n :
                /\ c.passes[i].len >= 0
                /\ c.passes[i].len <= c.passes[i].remaining
                /\ c.passes[i].remaining
                      = IF i = 1 THEN c.budget
                        ELSE c.passes[i - 1].remaining - c.passes[i - 1].len
                /\ 10 * c.passes[i].branch_height
                      <= 6 * c.passes[i].remaining
          /\ SumLen(c.passes, 1, n) <= c.budget
          /\ SumLen(c.passes, 1, n) = c.traveled
          /\ c.attempts < AttemptCap => SumLen(c.passes, 1, n) = c.budget

\* A call has ended before the attempt cap after several passes, the last
\* of them cut to the height that remained, and one of its passes has
\* given a branch 0.6 of the height remaining; the branch has itself
\* used up its budget.
C29_Witness ==
    /\ generated.calls > 0
    /\ \E c, b \in generated.result.calls :
          /\ c.attempts > 2 /\ c.attempts < AttemptCap
          /\ c.passes[c.attempts].len = c.passes[c.attempts].remaining
          /\ c.passes[c.attempts].len < c.passes[1].len
          /\ \E i \in DOMAIN c.passes :
                /\ c.passes[i].branch_height > 0
                /\ 10 * c.passes[i].branch_height
                      = 6 * c.passes[i].remaining
                /\ b.budget = c.passes[i].branch_height
          /\ b.level = c.level + 1
          /\ b.attempts > 0 /\ b.traveled = b.budget

\* The numerator of the reveal delay spawn_lightning gives a segment
\* stored with the distance dist, for the strike made of the call tree
\* last generated; the denominator is the same for all its segments.
DelayOf(dist) ==
    RevealDelay(dist, Max(generated.input.total_height, 1000)).num

\* C30: along each path of a call tree (one call of
\* create_lightning_segments), a later pass stores a distance and gets a
\* reveal delay no smaller than the pass before it; the core layer follows
\* the glow layer and the flash layer the core layer of the same pass with
\* the same distance, hence the same delay; and every segment's distance
\* is at least the base_distance of its call, the distance of the point
\* where its branch left its parent.
C30_RevealOrderFollowsPathOrder ==
    generated.calls > 0 =>
       LET segs == generated.result.segments IN
       /\ \A c \in generated.result.calls :
             /\ \A i \in 1..(Len(c.passes) - 1) :
                   /\ c.passes[i].distance <= c.passes[i + 1].distance
                   /\ DelayOf(c.passes[i].distance)
                         <= DelayOf(c.passes[i + 1].distance)
             /\ \A i \in DOMAIN c.passes :
                   c.passes[i].distance >= c.base
       /\ \A i \in DOMAIN segs :
             /\ segs[i].distance >= segs[i].base
             /\ segs[i].kind # "glow" =>
                   /\ i > 1
                   /\ segs[i - 1].kind
                         = (IF segs[i].kind = "core" THEN "glow" ELSE "core")
                   /\ segs[i - 1].pass = segs[i].pass
                   /\ segs[i - 1].level = segs[i].level
                   /\ segs[i - 1].distance = segs[i].distance
                   /\ DelayOf(segs[i - 1].distance) = DelayOf(segs[i].distance)

\* A call tree has segments of three layers, a main path of several
\* passes with growing distances and delays, and a branch of several
\* passes that left the main path beyond its start.
C30_Witness ==
    /\ generated.calls > 0
    /\ \E i \in DOMAIN generated.result.segments :
          generated.result.segments[i].kind = "flash"
    /\ \E c, b \in generated.result.calls :
          /\ c.level = 0 /\ Len(c.passes) > 2
          /\ c.passes[1].distance < c.passes[2].distance
          /\ DelayOf(c.passes[1].distance) < DelayOf(c.passes[2].distance)
          /\ b.level = 1 /\ b.base > 0 /\ Len(b.passes) > 1
          /\ b.passes[1].distance < b.passes[2].distance

\* C31: the effective dt of every tick lies in 0..MAX_DT, also when the
\* clock reads less than at the tick before, and no tick raises a snow
\* flake or an ash flake that it does not respawn.
C31_DtNeverNegative ==
    [][event' = "animate" =>
          /\ dt' >= 0 /\ dt' <= MAX_DT
          /\ \A k \in DOMAIN snow_particles :
                ~snow_particles'[k].respawned =>
                   snow_particles'[k].y <= snow_particles[k].y
          /\ \A k \in DOMAIN ash_particles :
                ~ash_particles'[k].respawned =>
                   ash_particles'[k].y <= ash_particles[k].y
      ]_vars

\* C32: the ground visual of the microburst has opacity 0.0 in every
\* state in which no microburst is active, the initial state included, and
\* 0.4 in every state in which one is.
C32_VisualHiddenUnlessActive ==
    microburst_visual
        = IF microburst_active.active THEN MICROBURST_VISUAL_SHOWN ELSE 0

\* C33: when a tick ends, every hail stone has v_y >= HAIL_MIN_BOUNCE_V,
\* a stone that a bounce would leave slower having been respawned with a
\* fresh v_y from HAIL_SPEED by the same tick, and no stone has bounced
\* more than HAIL_MAX_BOUNCES times since it was last respawned.
C33_HailNeverSlowNorTired ==
    event = "animate" =>
       \A k \in DOMAIN hail_particles :
          LET h == hail_particles[k] IN
          /\ h.v_y >= HAIL_MIN_BOUNCE_V * HailUnits
          /\ h.bounces <= HAIL_MAX_BOUNCES
          /\ h.respawned =>
                /\ h.v_y >= HAIL_SPEED_MIN * HailUnits
                /\ h.v_y <= HAIL_SPEED_MAX * HailUnits
                /\ h.bounces = 0

\* A tick has just respawned, with a fresh velocity, a stone that had
\* bounced at least once since its spawn and that one more bounce would
\* have left slower than HAIL_MIN_BOUNCE_V.
C33_Witness ==
    /\ event = "animate"
    /\ \E k \in DOMAIN hail_particles :
          LET h == hail_particles[k] IN
          /\ h.respawned /\ h.past_crossings >= 2
          /\ h.v_y >= HAIL_SPEED_MIN * HailUnits

\* C34: when a tick ends, the live orbs are at most as many as one strike
\* spawns at most, and all of one strike: a strike adds 1 to that many
\* orbs, and the next strike comes LIGHTNING_MIN_DELAY or more after it,
\* by when its orbs are older than BALL_LIFE and the tick removes them.
C34_OrbsOfOneStrikeOnly ==
    /\ BALL_LIFE < LIGHTNING_MIN_DELAY
    /\ event = "spawn_lightning" =>
          \E n \in 1..MaxOrbs :
             Cardinality({k \in DOMAIN ball_lightnings :
                             ball_lightnings[k].born = clock}) = n
    /\ event = "animate" =>
          /\ Len(ball_lightnings) <= MaxOrbs
          /\ \A j, k \in DOMAIN ball_lightnings :
                ball_lightnings[j].born = ball_lightnings[k].born

\* A tick that runs at the time of a strike which came
\* LIGHTNING_MIN_DELAY after the strike before it has ended with as many
\* orbs as one strike spawns at most, all of the later strike, in the
\* list and in the scene.
C34_Witness ==
    /\ event = "animate"
    /\ Len(ball_lightnings) = MaxOrbs
    /\ \A k \in DOMAIN ball_lightnings :
          /\ ball_lightnings[k].born = clock
          /\ ball_lightnings[k].born - LIGHTNING_MIN_DELAY \in DOMAIN strikes
    /\ \A l \in scene : l[1] = "orb" => l[2] = clock

\* C35: the list of live dust devils never holds more than
\* DUST_DEVILS_MAX of them.
C35_AtMostMaxDustDevils == Len(dust_devils) <= DUST_DEVILS_MAX

\* C36: when a tick ends, the list of live tornadoes holds at most one
\* tornado and the list of live strikes at most one strike: the timer of
\* either is re-armed with a delay longer than the lifetime, so that the
\* tick finds every earlier one expired.
C36_OneTornadoOneStrike ==
    /\ TORNADO_LIFE < TORNADO_MIN_DELAY
    /\ LIGHTNING_LIFETIME < LIGHTNING_MIN_DELAY
    /\ event = "animate" =>
          /\ Len(tornadoes) <= 1
          /\ Len(active_lightnings) <= 1

\* A tick has ended with the later of two strikes in the list of live
\* strikes, the earlier having expired.
C36_Witness ==
    /\ event = "animate"
    /\ Cardinality(DOMAIN strikes) = 2
    /\ Len(active_lightnings) = 1
    /\ \A b \in DOMAIN strikes : b <= active_lightnings[1]

\* Whether the particle p, of half extent half, is where a tick may leave
\* it: at or above the bottom edge, above the top edge by 20 px or more
\* if the tick has respawned it, and within the wrap margin of the sides.
WithinField(p, half) ==
    /\ p.y >= 0
    /\ p.respawned => p.y >= 1000 * H + 20000
    /\ p.x >= -1000 * WRAP_MARGIN - half
    /\ p.x <= 1000 * (W + WRAP_MARGIN) + half

\* C37: when a tick ends, every snow flake and every rain drop has y >= 0,
\* being above the top edge if the tick has respawned it, and
\* -120 - e <= x <= W + 120 + e, where e is its radius (snow) or half its
\* width (rain), also after a tornado or a microburst has displaced it.
C37_SnowAndRainWithinField ==
    event = "animate" =>
       /\ \A k \in DOMAIN snow_particles :
             WithinField(snow_particles[k], snow_particles[k].radius)
       /\ \A k \in DOMAIN rain_particles :
             WithinField(rain_particles[k], rain_particles[k].width \div 2)

\* A tick has wrapped a snow flake from the right edge to the left, where
\* it lies within the reach of the one live tornado.
C37_Witness ==
    /\ event = "animate"
    /\ Len(tornadoes) = 1
    /\ \E k \in DOMAIN snow_particles :
          /\ snow_particles[k].wrapped
          /\ snow_particles[k].x = -snow_particles[k].radius
          /\ TornadoInRange(tornadoes[1], snow_particles[k])

\* C38 as stated: after every tick the accumulator is in 0..1, the tick
\* has created at most one meteor, and the meteors created so far differ
\* from METEOR_CHANCE_PER_SEC times the summed effective dt by 1 at most.
C38_MeteorsTrackElapsedTime ==
    event = "animate" =>
       /\ meteor_accum >= 0 /\ meteor_accum <= MeteorUnit
       /\ Cardinality({i \in DOMAIN meteors : meteors[i].born = clock}) <= 1
       /\ Abs(METEOR_CHANCE_PER_SEC * meteor_tally.dt
                - MeteorUnit * meteor_tally.spawned) <= MeteorUnit

\* C38, amended: after every tick the accumulator is in 0..1 and the tick
\* has created at most one meteor; with ENABLE_METEORS on, the meteors
\* created so far differ from METEOR_CHANCE_PER_SEC times the summed
\* effective dt by what the accumulator holds, which is 1 at most; with
\* ENABLE_METEORS off none is created, and it is the summed dt less what
\* the accumulator holds that is a whole number.
C38_MeteorsTrackElapsedTimeIfEnabled ==
    event = "animate" =>
       /\ meteor_accum >= 0 /\ meteor_accum <= MeteorUnit
       /\ Cardinality({i \in DOMAIN meteors : meteors[i].born = clock}) <= 1
       /\ IF enable.METEORS
          THEN /\ METEOR_CHANCE_PER_SEC * meteor_tally.dt
                     - MeteorUnit * meteor_tally.spawned = meteor_accum
               /\ Abs(METEOR_CHANCE_PER_SEC * meteor_tally.dt
                        - MeteorUnit * meteor_tally.spawned) <= MeteorUnit
          ELSE /\ meteor_tally.spawned = 0
               /\ (METEOR_CHANCE_PER_SEC * meteor_tally.dt - meteor_accum)
                     % MeteorUnit = 0

\* With meteors enabled, a tick has just created the first meteor of the
\* run, after more than a second of summed effective dt.
C38_Witness ==
    /\ event = "animate" /\ enable.METEORS
    /\ meteor_tally.spawned = 1
    /\ METEOR_CHANCE_PER_SEC * meteor_tally.dt > MeteorUnit
    /\ \E i \in DOMAIN meteors : meteors[i].born = clock

\* C39: in every tick an inactive gust has strength 0, before the tick and
\* after it; a gust that is active before the tick and after it is the
\* same gust (the tick that ends a gust does not start the next one); the
\* tick that ends a gust sets the next start at least GUST_MIN_INTERVAL
\* after its clock reading, no tick of an inactive gust moves that next
\* start, and a gust starts only in a tick whose clock reading has reached
\* it, so that two successive gusts are at least GUST_MIN_INTERVAL of
\* inactivity apart.  With ENABLE_GUSTS false the gust is inactive after
\* every tick and the wind of the tick is the base wind plus the wave.
C39_GustsKeepTheirDistance ==
    [][event' = "animate" =>
          LET g == gust_state
              h == gust_state'
              now == clock
          IN  /\ ~g.active => g.strength = 0
              /\ ~h.active => h.strength = 0
              /\ (g.active /\ h.active) => h = g
              /\ (g.active /\ ~h.active) =>
                     h.next_start >= now + GUST_MIN_INTERVAL
              /\ (~g.active /\ ~h.active) => h.next_start = g.next_start
              /\ (~g.active /\ h.active) =>
                     /\ now >= g.next_start
                     /\ h.next_start = g.next_start
              /\ ~enable.GUSTS =>
                     /\ ~g.active /\ ~h.active
                     /\ current_wind' = WIND_BASE + Wave(now)]_vars

\* A second gust is under way: the next start it was started at is none of
\* the starts drawn at construction, so an earlier gust has ended and drawn
\* it, and the gust began no earlier than that.
C39_Witness ==
    /\ enable.GUSTS /\ event = "animate"
    /\ gust_state.active /\ gust_state.strength # 0
    /\ gust_state.next_start \notin GustIntervalDraws
    /\ gust_state.next_start
           >= GUST_MIN_INTERVAL + GUST_MIN_DURATION + GUST_MIN_INTERVAL
    /\ gust_state.start >= gust_state.next_start

\* With gusts disabled a tick has run past the first drawn start and the
\* gust is still inactive.
C39_WitnessDisabled ==
    /\ ~enable.GUSTS /\ event = "animate"
    /\ clock >= gust_state.next_start
    /\ ~gust_state.active

====
